---- MODULE Spec2Model ----
(***************************************************************************)
(* haex-sync-server: the CRDT change store behind POST /sync/push and      *)
(* GET /sync/pull (src/src/routes/sync.ts), with the table and index       *)
(* definitions of src/src/db/schema.ts and src/drizzle/partitioning.sql.   *)
(*                                                                         *)
(* Text.  A text value (table name, row key, column name, HLC, device id,  *)
(* ciphertext, batch id) is a finite sequence of character codes >= 1, and *)
(* PostgreSQL's text comparison is TextLess.  SQL NULL and JavaScript      *)
(* undefined are the two sequences NULL and undefined, which are not text  *)
(* because they contain the code 0.                                        *)
(*                                                                         *)
(* Time.  A timestamp is a number of microseconds (the resolution of       *)
(* timestamptz) counted from an arbitrary origin.  An ISO-8601 string is   *)
(* the pair <<whole seconds, fraction in microseconds>> that it spells.    *)
(***************************************************************************)
EXTENDS Integers, Sequences, FiniteSets, TLC

VARIABLES
    vaultKeys,  \* vault_keys: the rows registered
    db,         \* sync_changes: the committed rows
    clock,      \* the database server's wall clock, in microseconds
    push,       \* one POST /sync/push handler per slot
    hist,       \* history of the committed pushes (not program state)
    pull,       \* the GET /sync/pull handler
    sess,       \* a client paginating with the returned cursors (history)
    catalog,    \* the partitions of sync_changes and the triggers on vault_keys
    req,        \* one vault-key / vault handler per slot
    call,       \* an application of the batch validation functions to a list
    sig,        \* an application of verifySignature to a request and a variant of it
    cred,       \* user_storage_credentials and the calls of the credential service
    gw          \* the storage gateway: its handlers and the object-storage backend

vars == <<vaultKeys, db, clock, push, hist, pull, sess, catalog, req, call, sig, cred, gw>>

-----------------------------------------------------------------------------
(* Bounds of the model.                                                    *)

MaxChanges == 3     \* changes in one push request
MaxLimit == 2       \* greatest `limit` of a pull request

\* const CHUNK_SIZE = 5000 in the source.  The model scales it down so that
\* a push of MaxChanges changes spans more than one chunk statement.
CHUNK_SIZE == 2

-----------------------------------------------------------------------------
(* Text, NULL, undefined.                                                  *)

NULL == <<0>>
undefined == <<0, 0, 0>>

\* a > b on text is TextLess(b, a): comparison code by code, a proper prefix first.
RECURSIVE TextLess(_, _)
TextLess(a, b) ==
    IF b = <<>> THEN FALSE
    ELSE IF a = <<>> THEN TRUE
    ELSE IF Head(a) # Head(b) THEN Head(a) < Head(b)
    ELSE TextLess(Tail(a), Tail(b))

\* JavaScript truthiness of an optional string: undefined and "" are falsy.
Truthy(s) == s # undefined /\ s # <<>>

\* An optional field that was left out is stored as NULL.
OrNull(x) == IF x = undefined THEN NULL ELSE x

Min(S) == CHOOSE x \in S : \A y \in S : x <= y
Max(S) == CHOOSE x \in S : \A y \in S : y <= x

SeqToSet(s) == {s[i] : i \in 1..Len(s)}

\* The sequences over S of length 0..n.
SeqsUpTo(S, n) == UNION {[1..k -> S] : k \in 0..n}

-----------------------------------------------------------------------------
(* The names used by the specifications below.                             *)

u1 == "u1"
v1 == <<1>>
t1 == <<1>>
r1 == <<1>>
r2 == <<2>>
c1 == <<1>>
c2 == <<2>>
d1 == <<1>>
d2 == <<2>>
hlcLo == <<1, 2>>   \* "12" < "2" as text, although it is longer
hlcHi == <<2>>
valX == <<1>>
valY == <<2>>
nonce1 == <<1>>
nonce2 == <<2>>

\* A change of a push request body (pushChangesSchema).  batchSeq and
\* batchTotal are positive integers when present; 0 stands for undefined.
Change(tn, rp, cn, hlc, dev, val, non) ==
    [tableName |-> tn, rowPks |-> rp, columnName |-> cn, hlcTimestamp |-> hlc,
     deviceId |-> dev, encryptedValue |-> val, nonce |-> non,
     batchId |-> undefined, batchSeq |-> 0, batchTotal |-> 0]

-----------------------------------------------------------------------------
(* vault_keys, and the partitions of sync_changes.                         *)

\* A row of vault_keys: unique on (user_id, vault_id).  Of the encrypted key
\* bundle only encrypted_vault_name is kept, the column PATCH rewrites.
VaultKey(userId, vaultId, name) ==
    [userId |-> userId, vaultId |-> vaultId, encryptedVaultName |-> name]

\* (Variant: sync_changes carries no foreign key to vault_keys.)
NoForeignKey(keys, userId, vaultId) == TRUE

\* The referenced row of sync_changes_vault_fk (user_id, vault_id) exists.
HasVaultKey(keys, userId, vaultId) ==
    \E k \in keys : k.userId = userId /\ k.vaultId = vaultId

\* replace(vault_id, '-', '_'): the codes of '-' and '_'.
Hyphen == 45
Underscore == 95

\* partition_name := 'sync_changes_' || replace(vault_id, '-', '_').  The
\* constant prefix is left out of the name.
PartitionName(vaultId) ==
    [i \in 1..Len(vaultId) |-> IF vaultId[i] = Hyphen THEN Underscore ELSE vaultId[i]]

\* CREATE TABLE <name> PARTITION OF sync_changes FOR VALUES IN (<vault_id>),
\* with row level security and the two owner policies as given.
Partition(vaultId, rls, policies) ==
    [name |-> PartitionName(vaultId), vaultId |-> vaultId, rls |-> rls,
     policies |-> policies]

OwnerPolicies == {"select", "insert"}

\* The catalog of a partitioned store whose triggers are installed, with a
\* dedicated partition per vault id of V as the insert trigger creates them.
\* The default partition always exists and is not listed.
Partitioned(V) ==
    [partitioned |-> TRUE, triggers |-> TRUE,
     partitions |-> {Partition(v, TRUE, OwnerPolicies) : v \in V}]

\* The rows of `rows` stored in the table named `name`: a row is routed to the
\* partition FOR VALUES IN its vault_id, or else to the default partition.
RowsOfTable(rows, cat, name) ==
    {r \in rows : \E t \in cat.partitions : t.name = name /\ t.vaultId = r.vaultId}

RowsOfDefault(rows, cat) ==
    {r \in rows : \A t \in cat.partitions : t.vaultId # r.vaultId}

-----------------------------------------------------------------------------
(* sync_changes and its unique index.                                      *)

\* The arbiter of ON CONFLICT: the unique index sync_changes_unique_cell on
\* (vault_id, table_name, row_pks, column_name).  The index is declared
\* without NULLS NOT DISTINCT, so a NULL column_name equals nothing and a row
\* proposed with a NULL column_name conflicts with no row.
IndexConflict(r, vaultId, c) ==
    /\ r.vaultId = vaultId
    /\ r.tableName = c.tableName
    /\ r.rowPks = c.rowPks
    /\ c.columnName # NULL
    /\ r.columnName = c.columnName

\* Two stored rows are the same cell for the index (a row whose column_name
\* is NULL is the same cell as no row, itself excepted).
SameIndexKey(r, w) ==
    /\ r.vaultId = w.vaultId
    /\ r.tableName = w.tableName
    /\ r.rowPks = w.rowPks
    /\ r.columnName # NULL
    /\ r.columnName = w.columnName

\* The row an INSERT proposes; updated_at defaults to now().  id is a random
\* uuid: rows that agree on every column differ in `copy`, their number among
\* the rows with these values.
NewRow(rows, userId, vaultId, c, now) ==
    LET vals == [userId |-> userId, vaultId |-> vaultId,
                 tableName |-> c.tableName, rowPks |-> c.rowPks,
                 columnName |-> c.columnName,
                 hlcTimestamp |-> c.hlcTimestamp, deviceId |-> OrNull(c.deviceId),
                 encryptedValue |-> c.encryptedValue, nonce |-> c.nonce,
                 updatedAt |-> now]
        Twin(r) == [k \in DOMAIN vals |-> r[k]] = vals
    IN  [copy |-> 1 + Cardinality({r \in rows : Twin(r)})] @@ vals

\* The set clause of onConflictDoUpdate: five CASE expressions on
\* EXCLUDED.hlc_timestamp > sync_changes.hlc_timestamp.
DoUpdate(r, c, now) ==
    IF TextLess(r.hlcTimestamp, c.hlcTimestamp)
    THEN [r EXCEPT !.hlcTimestamp = c.hlcTimestamp,
                   !.deviceId = OrNull(c.deviceId),
                   !.encryptedValue = c.encryptedValue,
                   !.nonce = c.nonce,
                   !.updatedAt = now]
    ELSE r

\* One INSERT ... ON CONFLICT DO UPDATE ... RETURNING statement over `chunk`,
\* run on the rows `view` the transaction sees.  st is
\* [view, touched, returned, error]; touched are the rows the statement has
\* inserted or updated so far.
\*  - a proposed row that conflicts with a row this statement already
\*    inserted or updated: "ON CONFLICT DO UPDATE command cannot affect row a
\*    second time";
\*  - an inserted row is checked against sync_changes_vault_fk.
RECURSIVE InsertOnConflict(_, _, _, _, _, _)
InsertOnConflict(st, chunk, userId, vaultId, now, keys) ==
    IF chunk = <<>> \/ st.error # "none" THEN st
    ELSE LET c == Head(chunk)
             hit == {r \in st.view : IndexConflict(r, vaultId, c)}
         IN  IF hit = {}
             THEN IF ~HasVaultKey(keys, userId, vaultId)
                  THEN [st EXCEPT !.error = "foreign_key_violation"]
                  ELSE LET row == NewRow(st.view, userId, vaultId, c, now)
                       IN  InsertOnConflict(
                               [view |-> st.view \cup {row},
                                touched |-> st.touched \cup {row},
                                returned |-> Append(st.returned, row.hlcTimestamp),
                                error |-> "none"],
                               Tail(chunk), userId, vaultId, now, keys)
             ELSE LET r == CHOOSE x \in hit : TRUE
                      m == DoUpdate(r, c, now)
                  IN  IF r \in st.touched
                      THEN [st EXCEPT !.error = "cardinality_violation"]
                      ELSE InsertOnConflict(
                               [view |-> (st.view \ {r}) \cup {m},
                                touched |-> st.touched \cup {m},
                                returned |-> Append(st.returned, m.hlcTimestamp),
                                error |-> "none"],
                               Tail(chunk), userId, vaultId, now, keys)

-----------------------------------------------------------------------------
(* POST /sync/push: batch validation (inline in the route).                *)

\* for (const change of changes) if (batchId && batchSeq && batchTotal) ...
HasBatchMeta(c) == Truthy(c.batchId) /\ c.batchSeq # 0 /\ c.batchTotal # 0

GroupedChanges(changes) == SelectSeq(changes, HasBatchMeta)

\* batchMap.entries(): the batch ids in the order of their first occurrence.
RECURSIVE BatchIdsFrom(_, _, _)
BatchIdsFrom(g, i, acc) ==
    IF i > Len(g) THEN acc
    ELSE BatchIdsFrom(g, i + 1,
             IF g[i].batchId \in SeqToSet(acc) THEN acc ELSE Append(acc, g[i].batchId))

BatchIds(changes) == BatchIdsFrom(GroupedChanges(changes), 1, <<>>)

\* batchMap.get(batchId)
BatchChanges(changes, b) ==
    LET IsInBatch(c) == c.batchId = b IN SelectSeq(GroupedChanges(changes), IsInBatch)

NoError == [error |-> "none", batchId |-> undefined, missingSequences |-> {},
            expected |-> 0, received |-> 0]

\* (Variant: the loop body without its duplicate check.)
RouteCheckMissingOnly(b, bc) ==
    LET batchTotal == bc[1].batchTotal
        sequences == {bc[i].batchSeq : i \in 1..Len(bc)}
        missingSeqs == {i \in 1..batchTotal : i \notin sequences}
    IN  IF missingSeqs # {}
        THEN [error |-> "Incomplete batch", batchId |-> b,
              missingSequences |-> missingSeqs, expected |-> batchTotal,
              received |-> Len(bc)]
        ELSE NoError

\* The body of the validation loop for one batch: batchTotal is that of the
\* batch's first change; missing sequence numbers are looked for first,
\* duplicates second.
RouteCheckBatch(b, bc) ==
    LET batchTotal == bc[1].batchTotal
        sequences == {bc[i].batchSeq : i \in 1..Len(bc)}
        missingSeqs == {i \in 1..batchTotal : i \notin sequences}
    IN  IF missingSeqs # {}
        THEN [error |-> "Incomplete batch", batchId |-> b,
              missingSequences |-> missingSeqs, expected |-> batchTotal,
              received |-> Len(bc)]
        ELSE IF Cardinality(sequences) # Len(bc)
        THEN [error |-> "Duplicate sequence numbers in batch", batchId |-> b,
              missingSequences |-> {}, expected |-> 0, received |-> 0]
        ELSE NoError

\* The first batch, in map order, that fails its check decides the answer.
RECURSIVE RouteValidateFrom(_, _, _)
RouteValidateFrom(changes, ids, i) ==
    IF i > Len(ids) THEN NoError
    ELSE LET e == RouteCheckBatch(ids[i], BatchChanges(changes, ids[i]))
         IN  IF e.error # "none" THEN e ELSE RouteValidateFrom(changes, ids, i + 1)

RouteValidate(changes) == RouteValidateFrom(changes, BatchIds(changes), 1)

-----------------------------------------------------------------------------
(* validateBatches of utils/syncUtils.ts (the same grouping as the route). *)

\* The body of its validation loop: duplicates are looked for first, missing
\* sequence numbers second.
UtilCheckBatch(b, bc) ==
    LET batchTotal == bc[1].batchTotal
        sequences == {bc[i].batchSeq : i \in 1..Len(bc)}
        missingSeqs == {i \in 1..batchTotal : i \notin sequences}
    IN  IF Cardinality(sequences) # Len(bc)
        THEN [error |-> "Duplicate sequence numbers in batch", batchId |-> b,
              missingSequences |-> {}, expected |-> 0, received |-> 0]
        ELSE IF missingSeqs # {}
        THEN [error |-> "Incomplete batch", batchId |-> b,
              missingSequences |-> missingSeqs, expected |-> batchTotal,
              received |-> Len(bc)]
        ELSE NoError

RECURSIVE ValidateBatchesFrom(_, _, _)
ValidateBatchesFrom(changes, ids, i) ==
    IF i > Len(ids) THEN NoError
    ELSE LET e == UtilCheckBatch(ids[i], BatchChanges(changes, ids[i]))
         IN  IF e.error # "none" THEN e ELSE ValidateBatchesFrom(changes, ids, i + 1)

\* validateBatches(changes): null is NoError.
validateBatches(changes) == ValidateBatchesFrom(changes, BatchIds(changes), 1)

-----------------------------------------------------------------------------
(* Handler slots of the vault routes, and the validation call record.      *)

ReqSlots == {1, 2}

IdleReq == [pc |-> "idle", op |-> "none", userId |-> u1, vaultId |-> v1,
            name |-> NULL, status |-> 0]

\* The request of a handler, before its first statement.
Request(op, userId, vaultId) ==
    [IdleReq EXCEPT !.op = op, !.userId = userId, !.vaultId = vaultId]

\* The handler has answered the request r.
Answered(r, status) == [r EXCEPT !.pc = "done", !.status = status, !.name = NULL]

\* validateBatches(changes) of utils/syncUtils.ts, not yet called.
NoCall == [changes |-> <<>>, called |-> FALSE, result |-> NoError]

\* verifySignature has not been applied.
NoSig == [called |-> FALSE]

\* No credential is stored and the credential service is not running.
NoCred == [rows |-> {}]

\* The storage gateway serves no request.
NoGw == [configured |-> FALSE]

-----------------------------------------------------------------------------
(* POST /sync/push: the handler.                                           *)

\* Two requests, each handled once; they can be in flight at the same time.
Slots == {1, 2}

IdlePush ==
    [pc |-> "idle", userId |-> u1, vaultId |-> v1, changes |-> <<>>,
     now |-> 0, next |-> 1, writes |-> {}, returned |-> <<>>,
     status |-> 0, error |-> NoError, count |-> 0, lastHlc |-> NULL,
     overlapped |-> FALSE]

\* (Variant: the transaction sees, and commits, its own row versions only.)
OwnWritesOnly(p) == push[p].writes

\* What the transaction of slot p sees: the committed rows, with its own
\* uncommitted row versions in place of the ones it wrote (READ COMMITTED).
Visible(p) ==
    {r \in db : \A w \in push[p].writes : ~SameIndexKey(r, w)} \cup push[p].writes

\* changes.slice(i, i + CHUNK_SIZE)
Chunk(changes, i) == SubSeq(changes, i, Min({i + CHUNK_SIZE - 1, Len(changes)}))

\* A statement waits while a row it conflicts with carries an uncommitted
\* version or insertion of another transaction (row lock / speculative
\* insertion wait).
Blocked(p, chunk) ==
    \E q \in Slots \ {p} :
        /\ push[q].pc = "tx"
        /\ \E w \in push[q].writes : \E i \in 1..Len(chunk) :
               IndexConflict(w, push[p].vaultId, chunk[i])

\* (Variant: the chunk statements run on `db` instead of `tx`, each one
\* committing on its own.)
CommittedPerStatement(committed, view) == view

\* The rows of sync_changes that other sessions read after a statement of an
\* open db.transaction: the statement runs on `tx`, nothing is committed yet.
CommittedAfterStmt(committed, view) == committed

\* The request arrives: the batches are validated, and if they pass the
\* transaction begins (now() is the transaction's start time from here on).
PushReceive(p, userId, vaultId, Lists) ==
    /\ push[p].pc = "idle"
    /\ \E changes \in Lists :
        LET e == RouteValidate(changes)
            others == {q \in Slots \ {p} : push[q].pc = "tx"}
        IN  IF e.error # "none"
            THEN /\ push' = [push EXCEPT ![p] =
                        [IdlePush EXCEPT !.pc = "done", !.status = 400, !.error = e,
                                         !.changes = changes]]
                 /\ clock' = clock
            ELSE /\ push' = [q \in Slots |->
                        IF q = p
                        THEN [IdlePush EXCEPT !.pc = "tx", !.userId = userId,
                                 !.vaultId = vaultId, !.changes = changes,
                                 !.now = clock, !.overlapped = (others # {})]
                        ELSE IF q \in others
                        THEN [push[q] EXCEPT !.overlapped = TRUE]
                        ELSE push[q]]
                 /\ clock' = clock + 1
    /\ UNCHANGED <<vaultKeys, db, hist, pull, sess, catalog, req, call, sig, cred, gw>>

\* One iteration of the chunk loop: await tx.insert(...).onConflictDoUpdate(...).
\* An error of the statement leaves db.transaction through the catch block:
\* ROLLBACK, answer 500 (`next` then stays at the chunk that failed).
PushChunk(p) ==
    /\ push[p].pc = "tx"
    /\ push[p].next <= Len(push[p].changes)
    /\ LET chunk == Chunk(push[p].changes, push[p].next)
           st == InsertOnConflict(
                     [view |-> Visible(p), touched |-> {}, returned |-> <<>>,
                      error |-> "none"],
                     chunk, push[p].userId, push[p].vaultId, push[p].now,
                     vaultKeys)
       IN  /\ ~Blocked(p, chunk)
           /\ \/ /\ st.error = "none"
                 /\ push' = [push EXCEPT
                        ![p].writes =
                            {w \in @ : \A m \in st.touched : ~SameIndexKey(w, m)}
                                \cup st.touched,
                        ![p].returned = @ \o st.returned,
                        ![p].next = @ + CHUNK_SIZE]
                 /\ db' = CommittedAfterStmt(db, st.view)
              \/ /\ st.error # "none"
                 /\ push' = [push EXCEPT ![p] = [IdlePush EXCEPT !.pc = "done",
                                    !.status = 500, !.next = push[p].next]]
                 /\ db' = db
    /\ UNCHANGED <<vaultKeys, clock, hist, pull, sess, catalog, req, call, sig, cred, gw>>

\* A chunk statement can fail for reasons outside the data (deadlock victim,
\* lost connection, statement timeout): same path as above.
PushStmtFail(p) ==
    /\ push[p].pc = "tx"
    /\ push[p].next <= Len(push[p].changes)
    /\ push' = [push EXCEPT ![p] = [IdlePush EXCEPT !.pc = "done", !.status = 500,
                                       !.next = push[p].next]]
    /\ UNCHANGED <<vaultKeys, db, clock, hist, pull, sess, catalog, req, call, sig, cred, gw>>

\* The callback returns: COMMIT, answer 200 with count and lastHlc.
PushCommit(p) ==
    /\ push[p].pc = "tx"
    /\ push[p].next > Len(push[p].changes)
    /\ db' = Visible(p)
    /\ push' = [push EXCEPT ![p] =
                    [IdlePush EXCEPT !.pc = "done", !.status = 200,
                        !.count = Len(push[p].returned),
                        !.lastHlc = IF Len(push[p].returned) > 0
                                    THEN push[p].returned[Len(push[p].returned)]
                                    ELSE NULL]]
    /\ hist' = [hist EXCEPT !.submitted = @ \cup
                    {[vaultId |-> push[p].vaultId, change |-> push[p].changes[i]] :
                        i \in 1..Len(push[p].changes)}]
    /\ UNCHANGED <<vaultKeys, clock, pull, sess, catalog, req, call, sig, cred, gw>>

-----------------------------------------------------------------------------
(* The vault routes: POST, GET, PATCH /sync/vault-key and DELETE           *)
(* /sync/vault.  Each statement of a handler runs in its own transaction.  *)

\* (Variant: the lookup ignores the user.)
FindFirstByVaultId(keys, userId, vaultId) ==
    {k \in keys : k.vaultId = vaultId}

\* db.query.vaultKeys.findFirst({where: userId = .. and vaultId = ..})
FindFirstVaultKey(keys, userId, vaultId) ==
    {k \in keys : k.userId = userId /\ k.vaultId = vaultId}

\* A push transaction holds locks that a statement on vault `vaultId` or on
\* the table `name` has to wait for: rows it wrote for that vault (they
\* reference the vault_keys row, or sit in the default partition that a new
\* partition is checked against) or in that table.
PushHoldsLock(cat, vaultId, name) ==
    \E p \in Slots :
        /\ push[p].pc = "tx"
        /\ \E w \in push[p].writes :
              \/ w.vaultId = vaultId
              \/ w \in RowsOfTable(push[p].writes, cat, name)

\* create_sync_changes_partition(), AFTER INSERT ON vault_keys: unless a
\* relation of that name exists, create the partition.  CREATE TABLE ...
\* PARTITION OF fails when the default partition holds a row of that vault id.
CreatePartitionTrigger(cat, rows, vaultId) ==
    IF ~cat.triggers \/ \E t \in cat.partitions : t.name = PartitionName(vaultId)
    THEN [error |-> FALSE, catalog |-> cat]
    ELSE IF \E r \in RowsOfDefault(rows, cat) : r.vaultId = vaultId
    THEN [error |-> TRUE, catalog |-> cat]
    ELSE [error |-> FALSE,
          catalog |-> [cat EXCEPT !.partitions =
                          @ \cup {Partition(vaultId, TRUE, OwnerPolicies)}]]

\* drop_sync_changes_partition(), BEFORE DELETE ON vault_keys: DROP TABLE of
\* the relation of that name, if there is one, with the rows stored in it.
DropPartitionTrigger(cat, rows, vaultId) ==
    IF ~cat.triggers THEN [catalog |-> cat, rows |-> rows]
    ELSE [catalog |-> [cat EXCEPT !.partitions =
                          {t \in @ : t.name # PartitionName(vaultId)}],
          rows |-> rows \ RowsOfTable(rows, cat, PartitionName(vaultId))]

\* (Variant: sync_changes_vault_fk without ON DELETE CASCADE effect.)
CascadeNothing(rows, userId, vaultId) == rows

\* sync_changes_vault_fk ... ON DELETE CASCADE
CascadeDelete(rows, userId, vaultId) ==
    {r \in rows : ~(r.userId = userId /\ r.vaultId = vaultId)}

\* POST /vault-key: the request arrives and findFirst runs; 409 if a row exists.
VaultKeyCheck(s, userId, vaultId) ==
    /\ req[s].pc \in {"idle", "done"}
    /\ req' = [req EXCEPT ![s] =
                  IF FindFirstVaultKey(vaultKeys, userId, vaultId) # {}
                  THEN Answered(Request("create", userId, vaultId), 409)
                  ELSE [Request("create", userId, vaultId) EXCEPT !.pc = "insert"]]
    /\ UNCHANGED <<vaultKeys, db, clock, push, hist, pull, sess, catalog, call, sig, cred, gw>>

\* POST /vault-key: db.insert(vaultKeys), with its trigger.  A unique
\* violation on vault_keys_user_vault_idx or a failing trigger is caught: 500.
VaultKeyInsert(s) ==
    /\ req[s].pc = "insert"
    /\ ~PushHoldsLock(catalog, req[s].vaultId, PartitionName(req[s].vaultId))
    /\ LET created == CreatePartitionTrigger(catalog, db, req[s].vaultId)
       IN  IF FindFirstVaultKey(vaultKeys, req[s].userId, req[s].vaultId) # {}
              \/ created.error
           THEN /\ req' = [req EXCEPT ![s] = Answered(req[s], 500)]
                /\ UNCHANGED <<vaultKeys, catalog>>
           ELSE /\ vaultKeys' = vaultKeys
                        \cup {VaultKey(req[s].userId, req[s].vaultId, valX)}
                /\ catalog' = created.catalog
                /\ req' = [req EXCEPT ![s] = Answered(req[s], 201)]
    /\ UNCHANGED <<db, clock, push, hist, pull, sess, call, sig, cred, gw>>

\* GET /vault-key/:vaultId
VaultKeyGet(s, userId, vaultId) ==
    /\ req[s].pc \in {"idle", "done"}
    /\ req' = [req EXCEPT ![s] =
                  IF FindFirstVaultKey(vaultKeys, userId, vaultId) = {}
                  THEN Answered(Request("get", userId, vaultId), 404)
                  ELSE Answered(Request("get", userId, vaultId), 200)]
    /\ UNCHANGED <<vaultKeys, db, clock, push, hist, pull, sess, catalog, call, sig, cred, gw>>

\* PATCH /vault-key/:vaultId: findFirst; 404 if there is no row.
VaultKeyPatchCheck(s, userId, vaultId, name) ==
    /\ req[s].pc \in {"idle", "done"}
    /\ req' = [req EXCEPT ![s] =
                  IF FindFirstVaultKey(vaultKeys, userId, vaultId) = {}
                  THEN Answered(Request("patch", userId, vaultId), 404)
                  ELSE [Request("patch", userId, vaultId) EXCEPT !.pc = "update", !.name = name]]
    /\ UNCHANGED <<vaultKeys, db, clock, push, hist, pull, sess, catalog, call, sig, cred, gw>>

\* PATCH /vault-key/:vaultId: db.update(vaultKeys).set(...).where(...)
VaultKeyPatchUpdate(s) ==
    /\ req[s].pc = "update"
    /\ vaultKeys' = {IF k.userId = req[s].userId /\ k.vaultId = req[s].vaultId
                     THEN [k EXCEPT !.encryptedVaultName = req[s].name]
                     ELSE k : k \in vaultKeys}
    /\ req' = [req EXCEPT ![s] = Answered(req[s], 200)]
    /\ UNCHANGED <<db, clock, push, hist, pull, sess, catalog, call, sig, cred, gw>>

\* DELETE /vault/:vaultId: findFirst; 404 if there is no row.
VaultDeleteCheck(s, userId, vaultId) ==
    /\ req[s].pc \in {"idle", "done"}
    /\ req' = [req EXCEPT ![s] =
                  IF FindFirstVaultKey(vaultKeys, userId, vaultId) = {}
                  THEN Answered(Request("delete", userId, vaultId), 404)
                  ELSE [Request("delete", userId, vaultId) EXCEPT !.pc = "delete"]]
    /\ UNCHANGED <<vaultKeys, db, clock, push, hist, pull, sess, catalog, call, sig, cred, gw>>

\* DELETE /vault/:vaultId: db.delete(vaultKeys).where(...).  For the row it
\* deletes, the drop trigger runs first and the foreign key cascades after
\* (the foreign key to vault_keys is added by the conversion of the store).
VaultDeleteStmt(s) ==
    /\ req[s].pc = "delete"
    /\ ~PushHoldsLock(catalog, req[s].vaultId, PartitionName(req[s].vaultId))
    /\ LET found == FindFirstVaultKey(vaultKeys, req[s].userId, req[s].vaultId)
           dropped == DropPartitionTrigger(catalog, db, req[s].vaultId)
       IN  IF found = {}
           THEN UNCHANGED <<vaultKeys, db, catalog>>
           ELSE /\ vaultKeys' = vaultKeys \ found
                /\ catalog' = dropped.catalog
                /\ db' = IF catalog.partitioned
                         THEN CascadeDelete(dropped.rows, req[s].userId, req[s].vaultId)
                         ELSE dropped.rows
    /\ req' = [req EXCEPT ![s] = Answered(req[s], 200)]
    /\ UNCHANGED <<clock, push, hist, pull, sess, call, sig, cred, gw>>

-----------------------------------------------------------------------------
(* The startup script partitioning.sql.  scripts/migrate.ts sends the file *)
(* as one query: its statements run in one transaction, and an error in    *)
(* any of them leaves the database as it was.                              *)

\* The catalog before the first conversion: sync_changes is a plain table.
Unpartitioned == [partitioned |-> FALSE, triggers |-> FALSE, partitions |-> {}]

\* The first DO block.  A partitioned store is left alone.  Otherwise one
\* partition is created, with row level security enabled, for every vault id
\* that has rows in the old table, and the rows are moved; then the foreign
\* key to vault_keys is added.  Two vault ids with one partition name, or a
\* row without its vault_keys row, raise an error.
ConversionBlock(cat, rows, keys) ==
    LET V == {r.vaultId : r \in rows}
    IN  IF cat.partitioned THEN [error |-> FALSE, catalog |-> cat]
        ELSE IF \/ \E v, w \in V : v # w /\ PartitionName(v) = PartitionName(w)
                \/ \E r \in rows : ~HasVaultKey(keys, r.userId, r.vaultId)
        THEN [error |-> TRUE, catalog |-> cat]
        ELSE [error |-> FALSE,
              catalog |-> [cat EXCEPT !.partitioned = TRUE,
                              !.partitions = {Partition(v, TRUE, {}) : v \in V}]]

\* CREATE OR REPLACE FUNCTION and DROP TRIGGER IF EXISTS, CREATE TRIGGER for
\* the insert and the delete trigger of vault_keys.
InstallTriggers(cat) == [cat EXCEPT !.triggers = TRUE]

\* The last DO block: every existing partition gets the owner policies it lacks.
RepairPolicies(cat) ==
    [cat EXCEPT !.partitions = {[t EXCEPT !.policies = @ \cup OwnerPolicies] : t \in @}]

\* One run of the script.
RunPartitioningScript ==
    /\ \A p \in Slots : push[p].pc # "tx"
    /\ LET conv == ConversionBlock(catalog, db, vaultKeys)
       IN  catalog' = IF conv.error THEN catalog
                      ELSE RepairPolicies(InstallTriggers(conv.catalog))
    /\ UNCHANGED <<vaultKeys, db, clock, push, hist, pull, sess, req, call, sig, cred, gw>>

-----------------------------------------------------------------------------
(* GET /sync/pull.                                                         *)

\* (Variant: the format 'YYYY-MM-DD"T"HH24:MI:SS.MS"Z"', milliseconds.)
ToCharMS(ts) == <<ts \div 1000000, ((ts % 1000000) \div 1000) * 1000>>

\* to_char(ts AT TIME ZONE 'UTC', 'YYYY-MM-DD"T"HH24:MI:SS.US"Z"')
ToCharUS(ts) == <<ts \div 1000000, ts % 1000000>>

\* ${afterUpdatedAt}::timestamptz
ParseTimestamptz(iso) == iso[1] * 1000000 + iso[2]

\* Date.prototype.toISOString(): a Date holds milliseconds.
ToISOString(ts) == <<ts \div 1000000, ((ts % 1000000) \div 1000) * 1000>>

\* WHERE user_id = .. AND vault_id = .. [AND device_id <> excludeDeviceId];
\* `<>` with a NULL device_id is NULL, and the row is not selected.
PullScope(rows, userId, vaultId, excludeDeviceId) ==
    {r \in rows :
        /\ r.userId = userId
        /\ r.vaultId = vaultId
        /\ \/ excludeDeviceId = undefined
           \/ (r.deviceId # NULL /\ r.deviceId # excludeDeviceId)}

\* GROUP BY table_name, row_pks, with max(updated_at).
PullGroups(scope) ==
    {[tableName |-> k[1], rowPks |-> k[2],
      maxUpdatedAt |-> Max({r.updatedAt : r \in {x \in scope :
                                x.tableName = k[1] /\ x.rowPks = k[2]}})] :
        k \in {<<r.tableName, r.rowPks>> : r \in scope}}

\* (table_name, row_pks) > (afterTableName, afterRowPks): row comparison.
RowGreater(g, afterTableName, afterRowPks) ==
    \/ TextLess(afterTableName, g.tableName)
    \/ (g.tableName = afterTableName /\ TextLess(afterRowPks, g.rowPks))

\* The HAVING clause, chosen by the truthiness of the three cursor parts.
Having(g, afterUpdatedAt, afterTableName, afterRowPks) ==
    IF Truthy(afterUpdatedAt)
    THEN IF Truthy(afterTableName) /\ Truthy(afterRowPks)
         THEN \/ g.maxUpdatedAt > ParseTimestamptz(afterUpdatedAt)
              \/ /\ g.maxUpdatedAt = ParseTimestamptz(afterUpdatedAt)
                 /\ RowGreater(g, afterTableName, afterRowPks)
         ELSE g.maxUpdatedAt > ParseTimestamptz(afterUpdatedAt)
    ELSE TRUE

\* ORDER BY max(updated_at), table_name, row_pks (ascending).
OrderedBefore(g, h) ==
    \/ g.maxUpdatedAt < h.maxUpdatedAt
    \/ /\ g.maxUpdatedAt = h.maxUpdatedAt
       /\ \/ TextLess(g.tableName, h.tableName)
          \/ (g.tableName = h.tableName /\ TextLess(g.rowPks, h.rowPks))

RECURSIVE OrderBy(_)
OrderBy(G) ==
    IF G = {} THEN <<>>
    ELSE LET first == CHOOSE g \in G : \A h \in G \ {g} : OrderedBefore(g, h)
         IN  <<first>> \o OrderBy(G \ {first})

\* Step 1: modifiedRowsQuery, with maxUpdatedAtIso selected through to_char.
ModifiedRowsQuery(rows, q) ==
    LET groups == PullGroups(PullScope(rows, q.userId, q.vaultId, q.excludeDeviceId))
        kept == {g \in groups :
                    Having(g, q.afterUpdatedAt, q.afterTableName, q.afterRowPks)}
        sorted == OrderBy(kept)
        page == SubSeq(sorted, 1, Min({q.limit, Len(sorted)}))
    IN  [i \in 1..Len(page) |->
            [tableName |-> page[i].tableName, rowPks |-> page[i].rowPks,
             maxUpdatedAtIso |-> ToCharUS(page[i].maxUpdatedAt)]]

\* (Variant: step 2 keeps only the records written after the cursor.)
ChangedColumnsForRows(rows, q, page) ==
    {r \in rows :
        /\ r.userId = q.userId
        /\ r.vaultId = q.vaultId
        /\ Truthy(q.afterUpdatedAt) => r.updatedAt > ParseTimestamptz(q.afterUpdatedAt)
        /\ \E i \in 1..Len(page) :
               r.tableName = page[i].tableName /\ r.rowPks = page[i].rowPks}

\* Step 2: allColumnsForRows (the order of the result, by updated_at, is not
\* modelled).
AllColumnsForRows(rows, q, page) ==
    {r \in rows :
        /\ r.userId = q.userId
        /\ r.vaultId = q.vaultId
        /\ \E i \in 1..Len(page) :
               r.tableName = page[i].tableName /\ r.rowPks = page[i].rowPks}

\* An element of `changes` in the response (`changes` is modelled as a set:
\* neither its order nor how many equal elements it has is kept).
ResponseChange(r) ==
    [tableName |-> r.tableName, rowPks |-> r.rowPks, columnName |-> r.columnName,
     hlcTimestamp |-> r.hlcTimestamp, encryptedValue |-> r.encryptedValue,
     nonce |-> r.nonce, deviceId |-> r.deviceId,
     updatedAt |-> ToISOString(r.updatedAt)]

IdlePull ==
    [pc |-> "idle", userId |-> u1, vaultId |-> v1, excludeDeviceId |-> undefined,
     afterUpdatedAt |-> undefined, afterTableName |-> undefined,
     afterRowPks |-> undefined, limit |-> 1,
     page |-> <<>>, changes |-> {}, status |-> 0, hasMore |-> FALSE,
     serverTimestamp |-> undefined, lastTableName |-> undefined,
     lastRowPks |-> undefined]

\* The request arrives with its validated query.
PullReceive(userId, vaultId, excludeDeviceId, after, limit) ==
    /\ pull.pc \in {"idle", "done"}
    /\ pull' = [IdlePull EXCEPT !.pc = "step1", !.userId = userId,
                   !.vaultId = vaultId, !.excludeDeviceId = excludeDeviceId,
                   !.afterUpdatedAt = after[1], !.afterTableName = after[2],
                   !.afterRowPks = after[3], !.limit = limit]

\* Step 1 runs; an empty page is answered at once, with the server's clock as
\* serverTimestamp and no lastTableName / lastRowPks.
PullStep1 ==
    /\ pull.pc = "step1"
    /\ LET page == ModifiedRowsQuery(db, pull)
       IN  IF Len(page) = 0
           THEN pull' = [pull EXCEPT !.pc = "done", !.status = 200,
                            !.hasMore = FALSE,
                            !.serverTimestamp = ToISOString(clock)]
           ELSE pull' = [pull EXCEPT !.pc = "step2", !.page = page]
    /\ UNCHANGED <<vaultKeys, db, clock, push, hist, sess, catalog, req, call, sig, cred, gw>>

\* Step 2 runs, as a statement of its own, and the response is built.
PullStep2 ==
    /\ pull.pc = "step2"
    /\ LET lastRow == pull.page[Len(pull.page)]
       IN  pull' = [pull EXCEPT !.pc = "done", !.status = 200,
                       !.changes = {ResponseChange(r) :
                                       r \in AllColumnsForRows(db, pull, pull.page)},
                       !.hasMore = (Len(pull.page) >= pull.limit),
                       !.serverTimestamp = lastRow.maxUpdatedAtIso,
                       !.lastTableName = lastRow.tableName,
                       !.lastRowPks = lastRow.rowPks]
    /\ UNCHANGED <<vaultKeys, db, clock, push, hist, sess, catalog, req, call, sig, cred, gw>>

-----------------------------------------------------------------------------
(* The client session of the pagination specification.                    *)

NoSession ==
    [active |-> FALSE, finished |-> FALSE, excludeDeviceId |-> undefined,
     limit |-> 1, after |-> <<undefined, undefined, undefined>>,
     seen |-> {}, repeated |-> FALSE, requests |-> 0]

-----------------------------------------------------------------------------
(* Specification PushSpec: two concurrent pushes into one vault.           *)

\* The changes the pushes are made of: a cell with a column name and a
\* whole-row tombstone cell (column_name NULL), each under two HLCs.
PushPool ==
    { Change(t1, r1, c1, hlcLo, d1, valX, nonce1),
      Change(t1, r1, c1, hlcHi, undefined, valY, nonce2),
      Change(t1, r1, NULL, hlcLo, d1, NULL, NULL),
      Change(t1, r1, NULL, hlcHi, d2, NULL, NULL) }

PushLists == SeqsUpTo(PushPool, MaxChanges)

PushInit ==
    /\ vaultKeys = {VaultKey(u1, v1, valX)}
    /\ catalog = Partitioned({v1})
    /\ req = [s \in ReqSlots |-> IdleReq]
    /\ call = NoCall
    /\ sig = NoSig
    /\ cred = NoCred
    /\ gw = NoGw
    /\ db = {}
    /\ clock = 1
    /\ push = [p \in Slots |-> IdlePush]
    /\ hist = [db0 |-> {}, submitted |-> {}]
    /\ pull = IdlePull
    /\ sess = NoSession

PushNext ==
    \E p \in Slots :
        \/ PushReceive(p, u1, v1, PushLists)
        \/ PushChunk(p)
        \/ PushStmtFail(p)
        \/ PushCommit(p)

PushSpec == PushInit /\ [][PushNext]_vars

-----------------------------------------------------------------------------
(* Stores for the pull specifications: three rows of one vault, one of     *)
(* them of the table named "", each with up to two columns, written at     *)
(* 1000 us or 1001 us (the same millisecond).                              *)

tEmpty == <<>>

PullCells ==
    {<<tn, rp, cn>> : tn \in {tEmpty, t1}, rp \in {r1, r2}, cn \in {c1, c2}}
        \ {<<tEmpty, r2, c1>>, <<tEmpty, r2, c2>>}

CellTimes(cell) == IF cell[3] = c1 THEN {0, 1000, 1001} ELSE {0, 1000}

CellDevice(cell) ==
    IF cell[3] = c1 THEN d1 ELSE IF cell[2] = r2 THEN undefined ELSE d2

StoreOf(f) ==
    {NewRow({}, u1, v1,
            Change(cell[1], cell[2], cell[3], hlcLo, CellDevice(cell), valX, nonce1),
            f[cell]) : cell \in {x \in PullCells : f[x] # 0}}

PullStores == {StoreOf(f) : f \in {g \in [PullCells -> {0, 1000, 1001}] :
                                      \A cell \in PullCells : g[cell] \in CellTimes(cell)}}

PullLimits == 1..MaxLimit

PullInit ==
    /\ vaultKeys = {VaultKey(u1, v1, valX)}
    /\ catalog = Partitioned({v1})
    /\ req = [s \in ReqSlots |-> IdleReq]
    /\ call = NoCall
    /\ sig = NoSig
    /\ cred = NoCred
    /\ gw = NoGw
    /\ db \in PullStores
    /\ clock = 2000
    /\ push = [p \in Slots |-> IdlePush]
    /\ hist = [db0 |-> db, submitted |-> {}]
    /\ pull = IdlePull
    /\ sess = NoSession

-----------------------------------------------------------------------------
(* Specification CursorSpec: pulls with any cursor.                        *)

CursorTimes == {undefined, <<>>, ToCharUS(999), ToCharUS(1000), ToCharUS(1001)}
CursorTables == {undefined, tEmpty, t1}
CursorRowPks == {undefined, <<>>, r1, r2}

CursorRequest ==
    /\ pull.pc = "idle"
    /\ \E ex \in {undefined, d1}, limit \in PullLimits,
          after \in CursorTimes \X CursorTables \X CursorRowPks :
            PullReceive(u1, v1, ex, after, limit)
    /\ UNCHANGED <<vaultKeys, db, clock, push, hist, sess, catalog, req, call, sig, cred, gw>>

CursorNext == CursorRequest \/ PullStep1 \/ PullStep2

CursorSpec == PullInit /\ [][CursorNext]_vars

-----------------------------------------------------------------------------
(* Specification PaginateSpec: a client that starts without a cursor and   *)
(* sends back the cursor of the previous response until hasMore is false.  *)

ClientStart ==
    /\ ~sess.active
    /\ pull.pc = "idle"
    /\ \E ex \in {undefined, d1}, limit \in PullLimits :
        /\ sess' = [NoSession EXCEPT !.active = TRUE, !.excludeDeviceId = ex,
                       !.limit = limit, !.requests = 1]
        /\ PullReceive(u1, v1, ex, <<undefined, undefined, undefined>>, limit)
    /\ UNCHANGED <<vaultKeys, db, clock, push, hist, catalog, req, call, sig, cred, gw>>

\* The client reads a response: it notes the rows of the page and the cursor.
ClientRead ==
    /\ sess.active /\ ~sess.finished
    /\ pull.pc = "done"
    /\ LET rows == {<<pull.page[i].tableName, pull.page[i].rowPks>> :
                        i \in 1..Len(pull.page)}
       IN  sess' = [sess EXCEPT
                       !.seen = @ \cup rows,
                       !.repeated = @ \/ (rows \cap sess.seen # {}),
                       !.finished = ~pull.hasMore,
                       !.after = <<pull.serverTimestamp, pull.lastTableName,
                                   pull.lastRowPks>>]
    /\ pull' = [pull EXCEPT !.pc = "read"]
    /\ UNCHANGED <<vaultKeys, db, clock, push, hist, catalog, req, call, sig, cred, gw>>

\* ... and asks for the next page.
ClientNext ==
    /\ sess.active /\ ~sess.finished
    /\ pull.pc = "read"
    /\ sess' = [sess EXCEPT !.requests = @ + 1]
    /\ pull' = [IdlePull EXCEPT !.pc = "step1",
                   !.excludeDeviceId = sess.excludeDeviceId,
                   !.afterUpdatedAt = sess.after[1],
                   !.afterTableName = sess.after[2],
                   !.afterRowPks = sess.after[3], !.limit = sess.limit]
    /\ UNCHANGED <<vaultKeys, db, clock, push, hist, catalog, req, call, sig, cred, gw>>

PaginateNext == ClientStart \/ PullStep1 \/ PullStep2 \/ ClientRead \/ ClientNext

PaginateSpec == PullInit /\ [][PaginateNext]_vars

-----------------------------------------------------------------------------
(* Specification ChunkSpec: one push of several chunks into a store that   *)
(* may hold a row already, while a pull without a cursor reads.            *)

ChunkStores ==
    {{}, {NewRow({}, u1, v1, Change(t1, r1, c1, hlcLo, d1, valX, nonce1), 1000)}}

ChunkInit ==
    /\ vaultKeys = {VaultKey(u1, v1, valX)}
    /\ catalog = Partitioned({v1})
    /\ req = [s \in ReqSlots |-> IdleReq]
    /\ call = NoCall
    /\ sig = NoSig
    /\ cred = NoCred
    /\ gw = NoGw
    /\ db \in ChunkStores
    /\ clock = 2000
    /\ push = [p \in Slots |-> IdlePush]
    /\ hist = [db0 |-> db, submitted |-> {}]
    /\ pull = IdlePull
    /\ sess = NoSession

ReaderRequest ==
    /\ pull.pc = "idle"
    /\ \E limit \in PullLimits :
          PullReceive(u1, v1, undefined, <<undefined, undefined, undefined>>, limit)
    /\ UNCHANGED <<vaultKeys, db, clock, push, hist, sess, catalog, req, call, sig, cred, gw>>

ChunkNext ==
    \/ PushReceive(1, u1, v1, PushLists)
    \/ PushChunk(1)
    \/ PushStmtFail(1)
    \/ PushCommit(1)
    \/ ReaderRequest
    \/ PullStep1
    \/ PullStep2

ChunkSpec == ChunkInit /\ [][ChunkNext]_vars

-----------------------------------------------------------------------------
(* Properties of the change store.                                         *)

\* The cell of a stored row or of a submitted change, column_name NULL included.
SameCell(a, b) ==
    /\ a.tableName = b.tableName
    /\ a.rowPks = b.rowPks
    /\ a.columnName = b.columnName

CellRecords(rows, vaultId, c) == {r \in rows : r.vaultId = vaultId /\ SameCell(r, c)}

\* The changes of the pushes committed so far that address the cell of s.
SubmittedFor(s) ==
    {x \in hist.submitted : x.vaultId = s.vaultId /\ SameCell(x.change, s.change)}

IsMaxSubmitted(s) ==
    \A x \in SubmittedFor(s) : ~TextLess(s.change.hlcTimestamp, x.change.hlcTimestamp)

\* C1 (as stated): last write wins.  After any sequence of committed pushes,
\* every stored record of a submitted cell carries the lexicographically
\* greatest HLC submitted for that cell, with the value, nonce and device of a
\* submission that carried it.
C1_LastWriteWins ==
    \A s \in hist.submitted :
        \A r \in CellRecords(db, s.vaultId, s.change) :
            \E m \in SubmittedFor(s) :
                /\ IsMaxSubmitted(m)
                /\ r.hlcTimestamp = m.change.hlcTimestamp
                /\ r.encryptedValue = m.change.encryptedValue
                /\ r.nonce = m.change.nonce
                /\ r.deviceId = OrNull(m.change.deviceId)

\* The greatest HLC a push request carries for the cell of c.
PushesAtMost(p, c, hlc) ==
    \A i \in 1..Len(push[p].changes) :
        SameCell(push[p].changes[i], c)
            => ~TextLess(hlc, push[p].changes[i].hlcTimestamp)

\* C2 (as stated): concurrent pushes to one cell.  When a push whose
\* transaction overlapped another one commits, each cell it addresses holds a
\* record at least as new as its change afterwards, and where the store
\* already held a record at least as new as everything the push carries for
\* the cell, the records of that cell are left as they were.
C2_ConcurrentPushes ==
    [][\A p \in Slots :
          (push[p].pc = "tx" /\ push[p].overlapped
              /\ push'[p].pc = "done" /\ push'[p].status = 200)
          => \A i \in 1..Len(push[p].changes) :
                LET c == push[p].changes[i]
                    before == CellRecords(db, push[p].vaultId, c)
                    after == CellRecords(db', push[p].vaultId, c)
                IN  /\ \E r \in after : ~TextLess(r.hlcTimestamp, c.hlcTimestamp)
                    /\ (\E r \in before : PushesAtMost(p, c, r.hlcTimestamp))
                           => after = before]_vars

\* C3 (as stated): updated_at of a stored record never decreases, and it
\* changes exactly when the record is replaced by a submission with a
\* strictly greater HLC, whether or not the transactions overlapped.
C3_UpdatedAtMonotone ==
    [][\A r \in db : \A w \in db' :
          SameIndexKey(r, w)
          => /\ w.updatedAt >= r.updatedAt
             /\ (w.updatedAt # r.updatedAt)
                    <=> TextLess(r.hlcTimestamp, w.hlcTimestamp)]_vars

\* C4 (as stated): the store holds at most one record per
\* (vault, table, row, column), also for the cells whose column is NULL.
C4_OneRecordPerCell ==
    \A r \in db : \A w \in db :
        (r.vaultId = w.vaultId /\ SameCell(r, w)) => r = w

\* C5: a push is all or nothing.  Rows of sync_changes differ from the ones
\* before the push only once the push has been answered 200; then every
\* change of every chunk is reflected by a record at least as new; a push
\* answered with an error leaves nothing behind; and what a concurrent pull
\* has read, in either of its two queries, is in the store as it was before
\* the push or as the committed push left it.
C5_PushIsAtomic ==
    /\ (db # hist.db0) => \E p \in Slots : push[p].status = 200
    /\ \A p \in Slots : push[p].status = 200 =>
          \A s \in hist.submitted :
              \E r \in CellRecords(db, s.vaultId, s.change) :
                  ~TextLess(r.hlcTimestamp, s.change.hlcTimestamp)
    /\ \A p \in Slots : push[p].status \in {400, 500} => hist.submitted = {}
    /\ pull.pc = "done" =>
          \A x \in pull.changes :
              \/ \E r \in hist.db0 : x = ResponseChange(r)
              \/ /\ \E r \in db : x = ResponseChange(r)
                 /\ \E p \in Slots : push[p].status = 200
    /\ \A i \in 1..Len(pull.page) :
          \/ \E r \in hist.db0 : r.tableName = pull.page[i].tableName
                                    /\ r.rowPks = pull.page[i].rowPks
          \/ \E p \in Slots : push[p].status = 200

\* A push failed at its second chunk statement, after the first one had run,
\* and a pull has been answered: the store is the one from before the push.
C5_Witness ==
    /\ push[1].status = 500
    /\ push[1].next > 1
    /\ db = hist.db0
    /\ pull.pc = "done"
    /\ pull.status = 200

-----------------------------------------------------------------------------
(* Properties of the pull.                                                 *)

\* The rows (table_name, row_pks) a pull with this excludeDeviceId ranges
\* over, each with the greatest updated_at of its records: <<max, table, row>>.
RowKeys(excludeDeviceId) ==
    LET scope == PullScope(db, u1, v1, excludeDeviceId)
    IN  {<<Max({x.updatedAt : x \in {y \in scope : y.tableName = r.tableName
                                                     /\ y.rowPks = r.rowPks}}),
           r.tableName, r.rowPks>> : r \in scope}

\* Component-wise lexicographic order on <<max_updated, table_name, row_pks>>.
KeyLess(a, b) ==
    \/ a[1] < b[1]
    \/ a[1] = b[1] /\ TextLess(a[2], b[2])
    \/ a[1] = b[1] /\ a[2] = b[2] /\ TextLess(a[3], b[3])

PageKey(i) ==
    <<ParseTimestamptz(pull.page[i].maxUpdatedAtIso), pull.page[i].tableName,
      pull.page[i].rowPks>>

PageKeys == {PageKey(i) : i \in 1..Len(pull.page)}

\* An absent cursor part is the least text, as the empty string is.
OrEmpty(x) == IF x = undefined THEN <<>> ELSE x

\* C6 (as stated): on a store that is not modified, pulling from no cursor
\* with the cursor of the previous response ends with hasMore = false after
\* at most one request per row and one more, no row appears in two pages, and
\* at the end every row of the vault has appeared.
C6_PaginationVisitsEveryRowOnce ==
    LET rows == {<<k[2], k[3]>> : k \in RowKeys(sess.excludeDeviceId)}
    IN  sess.active =>
           /\ sess.requests <= Cardinality(rows) + 1
           /\ ~sess.repeated
           /\ sess.finished => sess.seen = rows

\* C7 (as stated): for every cursor (t, T, R) and limit L, T or R absent or
\* empty included, the page holds only rows whose <<max_updated, table, row>>
\* is strictly greater than <<t, T, R>>, at most L of them, in strictly
\* increasing order, and no row greater than the cursor that sorts before a
\* returned row is left out.
C7_PageIsNextAfterCursor ==
    (pull.pc \in {"step2", "done"} /\ Truthy(pull.afterUpdatedAt)) =>
        LET cursor == <<ParseTimestamptz(pull.afterUpdatedAt),
                        OrEmpty(pull.afterTableName), OrEmpty(pull.afterRowPks)>>
            qualifying == {k \in RowKeys(pull.excludeDeviceId) : KeyLess(cursor, k)}
        IN  /\ PageKeys \subseteq qualifying
            /\ Len(pull.page) <= pull.limit
            /\ \A i \in 1..Len(pull.page) : \A j \in 1..Len(pull.page) :
                   i < j => KeyLess(PageKey(i), PageKey(j))
            /\ \A k \in qualifying \ PageKeys :
                   \A i \in 1..Len(pull.page) : KeyLess(PageKey(i), k)

\* C8: every row of a page comes with the records of all the columns the
\* vault stores for it, whoever wrote them and whenever.
C8_AllColumnsOfPageRows ==
    (pull.pc = "done" /\ pull.status = 200) =>
        \A r \in db :
            (/\ r.userId = pull.userId
             /\ r.vaultId = pull.vaultId
             /\ \E i \in 1..Len(pull.page) :
                    r.tableName = pull.page[i].tableName
                        /\ r.rowPks = pull.page[i].rowPks)
            => ResponseChange(r) \in pull.changes

\* A pull with a cursor returned a row of which one column was written after
\* the cursor and another one was not.
C8_Witness ==
    /\ pull.pc = "done"
    /\ Truthy(pull.afterUpdatedAt)
    /\ \E r \in db : \E w \in db :
          /\ r.tableName = w.tableName /\ r.rowPks = w.rowPks
          /\ r.updatedAt > ParseTimestamptz(pull.afterUpdatedAt)
          /\ w.updatedAt <= ParseTimestamptz(pull.afterUpdatedAt)
          /\ ResponseChange(r) \in pull.changes
          /\ ResponseChange(w) \in pull.changes

\* C9: the serverTimestamp of a non-empty page is, to the microsecond, the
\* greatest updated_at of the page's last row, and a pull that sends it back
\* returns no row that an earlier page of the session held.
C9_ServerTimestampIsExact ==
    /\ (pull.pc \in {"done", "read"} /\ Len(pull.page) > 0) =>
          LET last == pull.page[Len(pull.page)]
              records == {r \in PullScope(db, pull.userId, pull.vaultId,
                                          pull.excludeDeviceId) :
                             r.tableName = last.tableName /\ r.rowPks = last.rowPks}
          IN  ParseTimestamptz(pull.serverTimestamp)
                  = Max({r.updatedAt : r \in records})
    /\ (sess.active /\ pull.pc \in {"step2", "done"}) =>
          \A i \in 1..Len(pull.page) :
              <<pull.page[i].tableName, pull.page[i].rowPks>> \notin sess.seen

\* The second page of a session: its cursor is not a whole number of
\* milliseconds, and the page's last row was written at the cursor's time.
C9_Witness ==
    /\ sess.active /\ sess.requests = 2
    /\ pull.pc = "done" /\ Len(pull.page) > 0
    /\ ParseTimestamptz(sess.after[1]) % 1000 # 0
    /\ ParseTimestamptz(pull.serverTimestamp) = ParseTimestamptz(sess.after[1])

-----------------------------------------------------------------------------
(* Specification BatchSpec: one push whose changes carry batch metadata,   *)
(* into a store that holds the cell of the push's first change already.    *)

b1 == <<1>>
b2 == <<2>>

\* batchId, batchSeq, batchTotal of a change: none, or all three.
BatchMetas ==
    {<<undefined, 0, 0>>}
        \cup {<<b, seq, total>> : b \in {b1, b2}, seq \in {1, 2, 3}, total \in {1, 2}}

\* The i-th change of a request writes column c1 of row <<i>> under hlcHi.
BatchChange(i, m) ==
    [Change(t1, <<i>>, c1, hlcHi, d1, valY, nonce2)
        EXCEPT !.batchId = m[1], !.batchSeq = m[2], !.batchTotal = m[3]]

BatchLists ==
    {[i \in 1..Len(ms) |-> BatchChange(i, ms[i])] : ms \in SeqsUpTo(BatchMetas, MaxChanges)}

BatchNext ==
    \/ PushReceive(1, u1, v1, BatchLists)
    \/ PushChunk(1)
    \/ PushStmtFail(1)
    \/ PushCommit(1)

BatchSpec == ChunkInit /\ [][BatchNext]_vars

\* The changes of a request that belong to batch b.
InBatch(changes, b) == {i \in 1..Len(changes) : changes[i].batchId = b}

\* Batch b of the request lacks a sequence number of 1..batch_total (where
\* its changes agree on batch_total), or two of its changes carry the same
\* sequence number.
BadBatch(changes, b) ==
    LET members == InBatch(changes, b)
        seqs == {changes[i].batchSeq : i \in members}
        totals == {changes[i].batchTotal : i \in members}
    IN  \/ \E i \in members : \E j \in members :
               i # j /\ changes[i].batchSeq = changes[j].batchSeq
        \/ \E total \in totals : totals = {total} /\ ~(1..total \subseteq seqs)

-----------------------------------------------------------------------------
(* Specification ValidateSpec: one list of changes is given both to the    *)
(* route and to validateBatches.                                           *)

ValidateInit ==
    /\ vaultKeys = {VaultKey(u1, v1, valX)}
    /\ catalog = Partitioned({v1})
    /\ req = [s \in ReqSlots |-> IdleReq]
    /\ call \in {[NoCall EXCEPT !.changes = l] : l \in BatchLists}
    /\ sig = NoSig
    /\ cred = NoCred
    /\ gw = NoGw
    /\ db \in ChunkStores
    /\ clock = 2000
    /\ push = [p \in Slots |-> IdlePush]
    /\ hist = [db0 |-> db, submitted |-> {}]
    /\ pull = IdlePull
    /\ sess = NoSession

CallValidateBatches ==
    /\ ~call.called
    /\ call' = [call EXCEPT !.called = TRUE, !.result = validateBatches(call.changes)]
    /\ UNCHANGED <<vaultKeys, db, clock, push, hist, pull, sess, catalog, req, sig, cred, gw>>

ValidateNext ==
    \/ PushReceive(1, u1, v1, {call.changes})
    \/ PushChunk(1)
    \/ PushStmtFail(1)
    \/ PushCommit(1)
    \/ CallValidateBatches

ValidateSpec == ValidateInit /\ [][ValidateNext]_vars

\* The changes of the request of slot p that carry batch id b, and whether
\* they agree on batch_total.
AgreedTotal(changes, b, total) ==
    {changes[i].batchTotal : i \in InBatch(changes, b)} = {total}

\* C11 (as stated): a push that passes validation has, for every batch id in
\* it, exactly the sequence numbers 1..batch_total, each once; in particular
\* none outside 1..batch_total.  (Batches whose changes disagree on
\* batch_total are left to C12.)
C11_AcceptedBatchesAreExact ==
    \A p \in Slots : push[p].pc = "tx" =>
        \A i \in 1..Len(push[p].changes) :
            LET c == push[p].changes[i]
                members == InBatch(push[p].changes, c.batchId)
            IN  (c.batchId # undefined
                    /\ AgreedTotal(push[p].changes, c.batchId, c.batchTotal))
                => /\ {push[p].changes[j].batchSeq : j \in members} = 1..c.batchTotal
                   /\ Cardinality(members) = c.batchTotal

\* C12 (as stated): a push in which two changes share a batch id and differ
\* in batch_total is answered 400 and writes nothing, in either order.
C12_DifferingTotalsRejected ==
    \A p \in Slots :
        (\E i \in 1..Len(push[p].changes) : \E j \in 1..Len(push[p].changes) :
            /\ push[p].changes[i].batchId # undefined
            /\ push[p].changes[i].batchId = push[p].changes[j].batchId
            /\ push[p].changes[i].batchTotal # push[p].changes[j].batchTotal)
        => /\ push[p].pc = "done"
           /\ push[p].status = 400
           /\ db = hist.db0

\* C13 (as stated): for every list of changes the route's inline validation
\* and validateBatches agree: both accept, or both reject with the same
\* error kind and the same batch id.
C13_SameVerdict ==
    (push[1].pc # "idle" /\ call.called) =>
        /\ (push[1].status = 400) <=> (call.result.error # "none")
        /\ push[1].status = 400 =>
              /\ push[1].error.error = call.result.error
              /\ push[1].error.batchId = call.result.batchId

-----------------------------------------------------------------------------
(* Specification SharedSpec: user u1 pushes to a vault id under which user *)
(* u2 has a record stored; u1 has registered that vault id too, or not.    *)

u2 == "u2"

SharedInit ==
    /\ vaultKeys \in {{VaultKey(u2, v1, valX)},
                      {VaultKey(u1, v1, valX), VaultKey(u2, v1, valX)}}
    /\ catalog = Partitioned({v1})
    /\ req = [s \in ReqSlots |-> IdleReq]
    /\ call = NoCall
    /\ sig = NoSig
    /\ cred = NoCred
    /\ gw = NoGw
    /\ db = {NewRow({}, u2, v1, Change(t1, r1, c1, hlcLo, d2, valX, nonce1), 1000)}
    /\ clock = 2000
    /\ push = [p \in Slots |-> IdlePush]
    /\ hist = [db0 |-> db, submitted |-> {}]
    /\ pull = IdlePull
    /\ sess = NoSession

SharedNext ==
    \/ PushReceive(1, u1, v1, PushLists)
    \/ PushChunk(1)
    \/ PushStmtFail(1)
    \/ PushCommit(1)

SharedSpec == SharedInit /\ [][SharedNext]_vars

\* C14 (as stated): a push of user u1 changes no record of another user:
\* every record that another user had stored before is stored unchanged.
C14_OtherUsersUntouched ==
    \A r \in hist.db0 : r.userId # u1 => r \in db

-----------------------------------------------------------------------------
(* Specification VaultSpec: vaults are registered and deleted by two users *)
(* through two concurrent handlers while one push runs.  The two vault ids *)
(* "1-2" and "1_2" differ, and their partition names are the same.         *)

vHy == <<1, Hyphen, 2>>
vUs == <<1, Underscore, 2>>

VaultPairs == {<<u1, vHy>>, <<u1, vUs>>, <<u2, vHy>>}

VaultLists == {<<Change(t1, r1, c1, hlcHi, d1, valX, nonce1)>>}

VaultInit ==
    /\ vaultKeys = {}
    /\ catalog = Partitioned({})
    /\ req = [s \in ReqSlots |-> IdleReq]
    /\ call = NoCall
    /\ sig = NoSig
    /\ cred = NoCred
    /\ gw = NoGw
    /\ db = {}
    /\ clock = 2000
    /\ push = [p \in Slots |-> IdlePush]
    /\ hist = [db0 |-> db, submitted |-> {}]
    /\ pull = IdlePull
    /\ sess = NoSession

VaultNext ==
    \/ \E s \in ReqSlots, uv \in VaultPairs : VaultKeyCheck(s, uv[1], uv[2])
    \/ \E s \in ReqSlots : VaultKeyInsert(s)
    \/ \E s \in ReqSlots, uv \in VaultPairs : VaultDeleteCheck(s, uv[1], uv[2])
    \/ \E s \in ReqSlots : VaultDeleteStmt(s)
    \/ \E uv \in VaultPairs : PushReceive(1, uv[1], uv[2], VaultLists)
    \/ PushChunk(1)
    \/ PushStmtFail(1)
    \/ PushCommit(1)

VaultSpec == VaultInit /\ [][VaultNext]_vars

\* C15: every change record belongs to a vault registered by its user.
C15_RecordsHaveVaultKey ==
    \A r \in db : FindFirstVaultKey(vaultKeys, r.userId, r.vaultId) # {}

\* A record is stored for a vault while another vault of the same user has
\* been registered and deleted again.
C15_Witness ==
    /\ db # {}
    /\ \E s \in ReqSlots : req[s].op = "delete" /\ req[s].status = 200

\* C16 (as stated): every registered vault has exactly one dedicated
\* partition, and no partition is left for a vault id nobody has registered.
C16_OnePartitionPerVault ==
    /\ \A k \in vaultKeys :
          Cardinality({t \in catalog.partitions : t.vaultId = k.vaultId}) = 1
    /\ \A t \in catalog.partitions : \E k \in vaultKeys : k.vaultId = t.vaultId

\* C17: the statement of DELETE /sync/vault/:vaultId that is answered 200
\* leaves, in the same step, neither the registry entry of that user's vault
\* nor any change record of it, in whichever partition the record was stored.
C17_DeleteRemovesRecords ==
    [][\A s \in ReqSlots :
          (req[s].pc = "delete" /\ req'[s].pc = "done") =>
              /\ req'[s].status = 200
              /\ FindFirstVaultKey(vaultKeys', req[s].userId, req[s].vaultId) = {}
              /\ \A r \in db' : ~(r.userId = req[s].userId /\ r.vaultId = req[s].vaultId)
      ]_vars

\* A push to a vault was committed, and after the DELETE of that vault was
\* answered 200 no record of the vault is stored.
C17_Witness ==
    \E s \in ReqSlots :
        /\ req[s].op = "delete" /\ req[s].status = 200
        /\ \E x \in hist.submitted : x.vaultId = req[s].vaultId
        /\ \A r \in db : r.vaultId # req[s].vaultId

-----------------------------------------------------------------------------
(* Specification StartupSpec: the script runs, any number of times, on a   *)
(* store that has vaults and records from before the conversion, while     *)
(* vaults are registered and deleted.                                      *)

StartupRow(uv) == NewRow({}, uv[1], uv[2], Change(t1, r1, c1, hlcLo, d1, valX, nonce1), 1000)

\* The stores before the conversion: any registered vaults, and records of
\* some of them, one per cell.
StartupStores ==
    {kr \in [keys : SUBSET VaultPairs, rows : SUBSET VaultPairs] :
        /\ kr.rows \subseteq kr.keys
        /\ \A a, b \in kr.rows : a[2] = b[2] => a = b}

StartupInit ==
    /\ \E kr \in StartupStores :
          /\ vaultKeys = {VaultKey(uv[1], uv[2], valX) : uv \in kr.keys}
          /\ db = {StartupRow(uv) : uv \in kr.rows}
    /\ catalog = Unpartitioned
    /\ req = [s \in ReqSlots |-> IdleReq]
    /\ call = NoCall
    /\ sig = NoSig
    /\ cred = NoCred
    /\ gw = NoGw
    /\ clock = 2000
    /\ push = [p \in Slots |-> IdlePush]
    /\ hist = [db0 |-> db, submitted |-> {}]
    /\ pull = IdlePull
    /\ sess = NoSession

StartupNext ==
    \/ RunPartitioningScript
    \/ \E uv \in VaultPairs : VaultKeyCheck(1, uv[1], uv[2])
    \/ VaultKeyInsert(1)
    \/ \E uv \in VaultPairs : VaultDeleteCheck(1, uv[1], uv[2])
    \/ VaultDeleteStmt(1)

StartupSpec == StartupInit /\ [][StartupNext]_vars

\* The script has run before: the store is partitioned and the triggers exist.
ScriptHasRun == catalog.partitioned /\ catalog.triggers

\* C18 (as stated): after a run of the script every registered vault has a
\* dedicated partition with row level security and both owner policies, and
\* a run after the first changes nothing.
C18_ScriptPartitionsEveryVault ==
    [][RunPartitioningScript =>
          /\ \A k \in vaultKeys' : \E t \in catalog'.partitions :
                /\ t.vaultId = k.vaultId
                /\ t.rls
                /\ t.policies = OwnerPolicies
          /\ ScriptHasRun => UNCHANGED catalog
      ]_vars

\* C19 (as stated): every POST /sync/vault-key is answered 201 or 409; the
\* one answered 201 adds the record of its (user, vault id), one answered 409
\* finds that record and changes nothing, and the registry never holds two
\* records of one (user, vault id).
C19_OneCreatedOthersConflict ==
    [][/\ \A s \in ReqSlots :
             (req'[s] # req[s] /\ req'[s].pc = "done" /\ req'[s].op = "create") =>
                 \/ /\ req'[s].status = 201
                    /\ FindFirstVaultKey(vaultKeys, req[s].userId, req[s].vaultId) = {}
                    /\ FindFirstVaultKey(vaultKeys', req[s].userId, req[s].vaultId) # {}
                 \/ /\ req'[s].status = 409
                    /\ vaultKeys' = vaultKeys
       /\ \A k \in vaultKeys' :
             Cardinality(FindFirstVaultKey(vaultKeys', k.userId, k.vaultId)) = 1
      ]_vars

-----------------------------------------------------------------------------
(* Specification AccessSpec: user u2 has registered vault "1-2" and stored *)
(* a record in it; both users read, rename, register and delete vaults.    *)

AccessNames == {valY}

AccessInit ==
    /\ vaultKeys = {VaultKey(u2, vHy, valX)}
    /\ catalog = Partitioned({vHy})
    /\ db = {StartupRow(<<u2, vHy>>)}
    /\ req = [s \in ReqSlots |-> IdleReq]
    /\ call = NoCall
    /\ sig = NoSig
    /\ cred = NoCred
    /\ gw = NoGw
    /\ clock = 2000
    /\ push = [p \in Slots |-> IdlePush]
    /\ hist = [db0 |-> db, submitted |-> {}]
    /\ pull = IdlePull
    /\ sess = NoSession

AccessNext ==
    \/ \E s \in ReqSlots, uv \in VaultPairs : VaultKeyGet(s, uv[1], uv[2])
    \/ \E s \in ReqSlots, uv \in VaultPairs, name \in AccessNames :
          VaultKeyPatchCheck(s, uv[1], uv[2], name)
    \/ \E s \in ReqSlots : VaultKeyPatchUpdate(s)
    \/ \E s \in ReqSlots, uv \in VaultPairs : VaultDeleteCheck(s, uv[1], uv[2])
    \/ \E s \in ReqSlots : VaultDeleteStmt(s)
    \/ \E uv \in VaultPairs : VaultKeyCheck(1, uv[1], uv[2])
    \/ VaultKeyInsert(1)

AccessSpec == AccessInit /\ [][AccessNext]_vars

\* The user of request r has no registry entry for the vault id of r.
NotRegistered(r) ==
    \A k \in vaultKeys : ~(k.userId = r.userId /\ k.vaultId = r.vaultId)

\* C20: a GET or PATCH /sync/vault-key/:vaultId or DELETE /sync/vault/:vaultId
\* of a user without a registry entry for that vault id is answered 404 at
\* once and changes no vault record, change record or partition.
C20_NotFoundForNonOwner ==
    [][\A s \in ReqSlots :
          (/\ req[s].pc \in {"idle", "done"}
           /\ req'[s] # req[s]
           /\ req'[s].op \in {"get", "patch", "delete"}
           /\ NotRegistered(req'[s])) =>
              /\ req'[s].pc = "done"
              /\ req'[s].status = 404
              /\ UNCHANGED <<vaultKeys, db, catalog>>
      ]_vars

\* A DELETE of a user without an entry was answered 404 while another user
\* has the vault id registered, with its record and its partition.
C20_Witness ==
    \E s \in ReqSlots :
        /\ req[s].op = "delete" /\ req[s].status = 404
        /\ NotRegistered(req[s])
        /\ \E k \in vaultKeys : k.vaultId = req[s].vaultId /\ k.userId # req[s].userId
        /\ \E r \in db : r.vaultId = req[s].vaultId
        /\ \E t \in catalog.partitions : t.vaultId = req[s].vaultId

-----------------------------------------------------------------------------
(* Text of the storage gateway: a string is the sequence of its character  *)
(* codes.                                                                  *)

Slash == 47
Semicolon == 59
Ampersand == 38
Newline == 10

StartsWith(s, prefix) ==
    Len(s) >= Len(prefix) /\ SubSeq(s, 1, Len(prefix)) = prefix

\* s.split(c)
RECURSIVE Split(_, _)
Split(s, c) ==
    IF \A i \in 1..Len(s) : s[i] # c THEN <<s>>
    ELSE LET i == Min({j \in 1..Len(s) : s[j] = c})
         IN  <<SubSeq(s, 1, i - 1)>> \o Split(SubSeq(s, i + 1, Len(s)), c)

\* parts.join(sep)
RECURSIVE Join(_, _)
Join(parts, sep) ==
    IF parts = <<>> THEN <<>>
    ELSE IF Len(parts) = 1 THEN parts[1]
    ELSE parts[1] \o sep \o Join(Tail(parts), sep)

\* The white space that String.prototype.trim removes (codes up to 255).
WhiteSpace == {9, 10, 11, 12, 13, 32, 160}

\* s.trim()
Trim(s) ==
    LET keep == {i \in 1..Len(s) : s[i] \notin WhiteSpace}
    IN  IF keep = {} THEN <<>> ELSE SubSeq(s, Min(keep), Max(keep))

\* array.sort() of strings: ascending by code units.
RECURSIVE SortTexts(_)
SortTexts(parts) ==
    IF parts = <<>> THEN <<>>
    ELSE LET least == CHOOSE i \in 1..Len(parts) :
                          \A j \in 1..Len(parts) :
                              ~TextLess(parts[j], parts[i]) /\ (parts[j] = parts[i] => i <= j)
         IN  <<parts[least]>> \o
             SortTexts([k \in 1..(Len(parts) - 1) |->
                           IF k < least THEN parts[k] ELSE parts[k + 1]])

Digit == 48..57
LowerAlpha == 97..122
UpperAlpha == 65..90
HyphenClass == {Hyphen}
HexDigits == Digit \cup (97..102)

\* /^[class]+$/.test(s)
Matches(s, class) == Len(s) >= 1 /\ \A i \in 1..Len(s) : s[i] \in class

\* parseInt(s, 10) of a string of digits
RECURSIVE ParseInt(_)
ParseInt(s) ==
    IF s = <<>> THEN 0 ELSE 10 * ParseInt(SubSeq(s, 1, Len(s) - 1)) + (s[Len(s)] - 48)

-----------------------------------------------------------------------------
(* SHA-256 and HMAC-SHA256.  The digest is a hex string of fixed length    *)
(* computed from every code of its input: two polynomial checksums stand   *)
(* for SHA-256, so that a digest is recomputed from the text that is       *)
(* hashed and a change of one code of the input changes the digest.        *)

\* The length of a hex digest: 64 in the source, 8 here.
SigLen == 8

\* b^e modulo p
RECURSIVE PowMod(_, _, _)
PowMod(b, e, p) ==
    IF e = 0 THEN 1
    ELSE LET half == PowMod(b, e \div 2, p)
         IN  IF e % 2 = 0 THEN (half * half) % p ELSE (((half * half) % p) * b) % p

\* The sum of s[i] * 257^(hi - i) for i in lo..hi, modulo p.
RECURSIVE PolyRange(_, _, _, _)
PolyRange(s, lo, hi, p) ==
    IF lo > hi THEN 0
    ELSE IF lo = hi THEN s[lo] % p
    ELSE LET mid == (lo + hi) \div 2
         IN  (PolyRange(s, lo, mid, p) * PowMod(257, hi - mid, p)
              + PolyRange(s, mid + 1, hi, p)) % p

Poly(s, p) == (PowMod(257, Len(s), p) + PolyRange(s, 1, Len(s), p)) % p

HexDigit(n) == IF n < 10 THEN 48 + n ELSE 87 + n

Hex4(n) ==
    <<HexDigit(n \div 4096), HexDigit((n \div 256) % 16),
      HexDigit((n \div 16) % 16), HexDigit(n % 16)>>

\* createHash('sha256').update(s).digest('hex')
Sha256Hex(s) == Hex4(Poly(s, 46337)) \o Hex4(Poly(s, 46327))

\* createHmac('sha256', key).update(s).digest()
Hmac(key, s) == Sha256Hex(key \o <<0>> \o s)

-----------------------------------------------------------------------------
(* AWS Signature v4 verification (utils/storageUtils.ts).                  *)

TxtAws4HmacSha256 == <<65, 87, 83, 52, 45, 72, 77, 65, 67, 45, 83, 72, 65, 50, 53, 54>>    \* "AWS4-HMAC-SHA256"
TxtAws4 == <<65, 87, 83, 52>>    \* "AWS4"
TxtAws4Request == <<97, 119, 115, 52, 95, 114, 101, 113, 117, 101, 115, 116>>    \* "aws4_request"
TxtUnsignedPayload == <<85, 78, 83, 73, 71, 78, 69, 68, 45, 80, 65, 89, 76, 79, 65, 68>>    \* "UNSIGNED-PAYLOAD"
TxtXAmzSignatureEq == <<88, 45, 65, 109, 122, 45, 83, 105, 103, 110, 97, 116, 117, 114, 101, 61>>    \* "X-Amz-Signature="
TxtXAmzDate == <<120, 45, 97, 109, 122, 45, 100, 97, 116, 101>>    \* "x-amz-date"
TxtDate == <<100, 97, 116, 101>>    \* "date"
TxtXAmzContentSha256 == <<120, 45, 97, 109, 122, 45, 99, 111, 110, 116, 101, 110, 116, 45, 115, 104, 97, 50, 53, 54>>    \* "x-amz-content-sha256"
TxtHost == <<104, 111, 115, 116>>    \* "host"

\* headers[name] || ''
HeaderOr(headers, name) == IF name \in DOMAIN headers THEN headers[name] ELSE <<>>

\* parts[i] || ''
PartOr(parts, i) == IF i <= Len(parts) THEN parts[i] ELSE <<>>

NotParsed ==
    [ok |-> FALSE, accessKeyId |-> <<>>, date |-> <<>>, region |-> <<>>,
     service |-> <<>>, signedHeaders |-> <<>>, signatureProvided |-> <<>>,
     timestamp |-> <<>>]

\* parseAuthorizationHeader.  The header is given by its scheme and by the
\* values of its components Credential, SignedHeaders and Signature; a
\* component that is absent is the empty text.
parseAuthorizationHeader(authHeader, headers) ==
    LET credentialParts == Split(authHeader.credential, Slash)
        accessKeyId == PartOr(credentialParts, 1)
        date == PartOr(credentialParts, 2)
        region == PartOr(credentialParts, 3)
        service == PartOr(credentialParts, 4)
        timestamp == IF HeaderOr(headers, TxtXAmzDate) # <<>>
                     THEN HeaderOr(headers, TxtXAmzDate)
                     ELSE HeaderOr(headers, TxtDate)
    IN  IF ~StartsWith(authHeader.scheme, TxtAws4HmacSha256) THEN NotParsed
        ELSE IF authHeader.credential = <<>> \/ authHeader.signedHeaders = <<>>
                \/ authHeader.signature = <<>> THEN NotParsed
        ELSE IF accessKeyId = <<>> \/ date = <<>> \/ region = <<>> \/ service = <<>>
        THEN NotParsed
        ELSE IF ~Matches(accessKeyId, UpperAlpha \cup LowerAlpha \cup Digit) THEN NotParsed
        ELSE IF ~(Len(date) = 8 /\ Matches(date, Digit)) THEN NotParsed
        ELSE IF ~Matches(region, LowerAlpha \cup Digit \cup HyphenClass)
                \/ ~Matches(service, LowerAlpha \cup Digit) THEN NotParsed
        ELSE IF ~(Len(authHeader.signature) = SigLen
                  /\ Matches(authHeader.signature, HexDigits)) THEN NotParsed
        ELSE [ok |-> TRUE, accessKeyId |-> accessKeyId, date |-> date,
              region |-> region, service |-> service,
              signedHeaders |-> Split(authHeader.signedHeaders, Semicolon),
              signatureProvided |-> authHeader.signature,
              timestamp |-> timestamp]

\* extractAccessKeyId: /Credential=([^/]+)\// on the header; <<>> is null.
extractAccessKeyId(authHeader) ==
    LET slashes == {i \in 1..Len(authHeader.credential) : authHeader.credential[i] = Slash}
    IN  IF ~StartsWith(authHeader.scheme, TxtAws4HmacSha256) THEN <<>>
        ELSE IF slashes = {} \/ Min(slashes) = 1 THEN <<>>
        ELSE SubSeq(authHeader.credential, 1, Min(slashes) - 1)

getSigningKey(secretKey, date, region, service) ==
    Hmac(Hmac(Hmac(Hmac(TxtAws4 \o secretKey, date), region), service), TxtAws4Request)

\* Date.UTC(year, month, day, hour, min, sec) with its carry of fields out
\* of range, in milliseconds since 2024-01-01T00:00:00Z.  A day more than 20
\* days from that instant counts as the day 20 days from it, which keeps the
\* numbers within 32 bits and the instant weeks away from the server times.
LeapYearsBefore(y) == ((y - 1) \div 4) - ((y - 1) \div 100) + ((y - 1) \div 400)

IsLeapYear(y) == (y % 4 = 0 /\ y % 100 # 0) \/ y % 400 = 0

DaysInMonth(y, m0) ==
    IF m0 = 1 THEN (IF IsLeapYear(y) THEN 29 ELSE 28)
    ELSE IF m0 \in {3, 5, 8, 10} THEN 30 ELSE 31

RECURSIVE DaysBeforeMonth(_, _)
DaysBeforeMonth(y, m0) ==
    IF m0 = 0 THEN 0 ELSE DaysBeforeMonth(y, m0 - 1) + DaysInMonth(y, m0 - 1)

DateUTC(year, month, day, hour, min, sec) ==
    LET y == year + (month \div 12)
        m0 == month % 12
        days == 365 * (y - 2024) + LeapYearsBefore(y) - LeapYearsBefore(2024)
                + DaysBeforeMonth(y, m0) + (day - 1)
        near == IF days > 20 THEN 20 ELSE IF days < 0 - 20 THEN 0 - 20 ELSE days
    IN  (((near * 24 + hour) * 60 + min) * 60 + sec) * 1000

\* new Date(...) of parseISO8601, or null.
NoDate == [valid |-> FALSE, time |-> 0]

\* parseISO8601: /^(\d{4})(\d{2})(\d{2})T(\d{2})(\d{2})(\d{2})Z$/
parseISO8601(timestamp) ==
    IF timestamp = <<>> THEN NoDate
    ELSE IF \/ Len(timestamp) # 16
            \/ timestamp[9] # 84
            \/ timestamp[16] # 90
            \/ \E i \in (1..8) \cup (10..15) : timestamp[i] \notin Digit
    THEN NoDate
    ELSE [valid |-> TRUE,
          time |-> DateUTC(ParseInt(SubSeq(timestamp, 1, 4)),
                           ParseInt(SubSeq(timestamp, 5, 6)) - 1,
                           ParseInt(SubSeq(timestamp, 7, 8)),
                           ParseInt(SubSeq(timestamp, 10, 11)),
                           ParseInt(SubSeq(timestamp, 12, 13)),
                           ParseInt(SubSeq(timestamp, 14, 15)))]

Abs(n) == IF n < 0 THEN 0 - n ELSE n

\* (Variant: a comparison that stops at the first pair of bytes that differ.)
EarlyExitEqual(a, b) ==
    LET diff == {i \in 1..Min({Len(a), Len(b)}) : a[i] # b[i]}
    IN  [equal |-> a = b,
         compared |-> IF diff = {} THEN Min({Len(a), Len(b)}) ELSE Min(diff)]

\* sigA.length === sigB.length && crypto.timingSafeEqual(sigA, sigB), with
\* the number of bytes of content it reads: timingSafeEqual reads every byte
\* of both buffers, and is not called for buffers of different length.
SignaturesEqual(a, b) ==
    IF Len(a) # Len(b) THEN [equal |-> FALSE, compared |-> 0]
    ELSE [equal |-> a = b, compared |-> Len(a)]

\* The canonical request and the string to sign of a parsed request.
CanonicalQueryString(queryString) ==
    IF queryString = <<>> THEN <<>>
    ELSE Join(SortTexts(SelectSeq(Split(queryString, Ampersand),
                                  LAMBDA p : ~StartsWith(p, TxtXAmzSignatureEq))),
              <<Ampersand>>)

RECURSIVE CanonicalHeaders(_, _)
CanonicalHeaders(signedHeaders, headers) ==
    IF signedHeaders = <<>> THEN <<>>
    ELSE Head(signedHeaders) \o <<58>> \o Trim(HeaderOr(headers, Head(signedHeaders)))
         \o <<Newline>> \o CanonicalHeaders(Tail(signedHeaders), headers)

CanonicalRequest(parsed, headers, method, path, queryString) ==
    Join(<<method, path, CanonicalQueryString(queryString),
           CanonicalHeaders(parsed.signedHeaders, headers),
           Join(parsed.signedHeaders, <<Semicolon>>),
           IF HeaderOr(headers, TxtXAmzContentSha256) # <<>>
           THEN HeaderOr(headers, TxtXAmzContentSha256) ELSE TxtUnsignedPayload>>,
         <<Newline>>)

StringToSign(parsed, headers, method, path, queryString) ==
    Join(<<TxtAws4HmacSha256, parsed.timestamp,
           Join(<<parsed.date, parsed.region, parsed.service, TxtAws4Request>>, <<Slash>>),
           Sha256Hex(CanonicalRequest(parsed, headers, method, path, queryString))>>,
         <<Newline>>)

CalculatedSignature(parsed, headers, method, path, queryString, secretKey) ==
    Hmac(getSigningKey(secretKey, parsed.date, parsed.region, parsed.service),
         StringToSign(parsed, headers, method, path, queryString))

\* verifySignature at server time `now` (Date.now()).  Next to the verdict
\* the result tells whether the signing key was derived from the secret and
\* how many bytes of the signatures the comparison read.
verifySignature(authHeader, headers, method, path, queryString, secretKey, now) ==
    LET parsed == parseAuthorizationHeader(authHeader, headers)
        requestTime == parseISO8601(parsed.timestamp)
        eq == SignaturesEqual(parsed.signatureProvided,
                  CalculatedSignature(parsed, headers, method, path, queryString, secretKey))
    IN  IF ~parsed.ok THEN [valid |-> FALSE, derived |-> FALSE, compared |-> 0]
        ELSE IF ~requestTime.valid \/ Abs(now - requestTime.time) > 900000
        THEN [valid |-> FALSE, derived |-> FALSE, compared |-> 0]
        ELSE [valid |-> eq.equal, derived |-> TRUE, compared |-> eq.compared]

-----------------------------------------------------------------------------
(* Specification SigSpec: verifySignature is applied to a request that a   *)
(* client signed with the secret, and to the same request with one byte    *)
(* changed; the comparison of signatures is applied to pairs of texts.     *)

secret1 == <<83, 49>> (* "S1" *)

\* The values of x-amz-date: the instant 2024-01-01T00:00:00Z written with
\* fields in range and with fields out of range, a text that is no
\* timestamp, and no header.
SigTimestamps ==
    {<<50, 48, 50, 52, 48, 49, 48, 49, 84, 48, 48, 48, 48, 48, 48, 90>> (* "20240101T000000Z" *),
     <<50, 48, 50, 51, 49, 51, 48, 49, 84, 48, 48, 48, 48, 48, 48, 90>> (* "20231301T000000Z" *),
     <<50, 48, 50, 51, 49, 50, 51, 49, 84, 50, 51, 54, 48, 48, 48, 90>> (* "20231231T236000Z" *),
     <<50, 48, 50, 52, 48, 49, 48, 49, 84, 48, 48, 48, 48, 90>> (* "20240101T0000Z" *),
     <<>>}

SigHosts == {<<104>> (* "h" *), <<104, 32>> (* "h " *)}

SigQueries ==
    {<<>>,
     <<98, 61, 49, 38, 97, 61, 50>> (* "b=1&a=2" *),
     <<88, 45, 65, 109, 122, 45, 83, 105, 103, 110, 97, 116, 117, 114, 101, 61, 48>> (* "X-Amz-Signature=0" *)}

\* Date.now(), in milliseconds since 2024-01-01T00:00:00Z.
SigNows == {0, 899999, 900000, 900001, 0 - 900000, 0 - 900001}

\* The bytes a byte is changed to.
SigBytes == {9, 49, 97}

Unsigned(host, timestamp, query) ==
    [auth |-> [scheme |-> TxtAws4HmacSha256,
               credential |-> <<65, 75, 47, 50, 48, 50, 52, 48, 49, 48, 49, 47, 101, 117, 47, 115, 51, 47, 97, 119, 115, 52, 95, 114, 101, 113, 117, 101, 115, 116>> (* "AK/20240101/eu/s3/aws4_request" *),
               signedHeaders |-> <<104, 111, 115, 116, 59, 120, 45, 97, 109, 122, 45, 100, 97, 116, 101>> (* "host;x-amz-date" *),
               signature |-> [i \in 1..SigLen |-> 48]],
     headers |-> IF timestamp = <<>> THEN [n \in {TxtHost} |-> host]
                 ELSE [n \in {TxtHost, TxtXAmzDate} |->
                          IF n = TxtHost THEN host ELSE timestamp],
     method |-> <<71, 69, 84>> (* "GET" *),
     path |-> <<47, 97>> (* "/a" *),
     query |-> query,
     secret |-> secret1]

\* The client signs the request with its secret, as Signature Version 4 says.
Signed(r) ==
    [r EXCEPT !.auth.signature =
        CalculatedSignature(parseAuthorizationHeader(r.auth, r.headers), r.headers,
                            r.method, r.path, r.query, r.secret)]

SignedRequests ==
    {Signed(Unsigned(h, t, q)) : h \in SigHosts, t \in SigTimestamps, q \in SigQueries}

Verify(r, now) ==
    verifySignature(r.auth, r.headers, r.method, r.path, r.query, r.secret, now)

NoVerdict == [valid |-> FALSE, derived |-> FALSE, compared |-> 0]

NoComparison == [a |-> <<>>, b |-> <<>>, equal |-> FALSE, compared |-> 0]

SigInit ==
    /\ \E r \in SignedRequests, now \in SigNows :
          sig = [called |-> FALSE, base |-> r, variant |-> r, field |-> <<>>,
                 now |-> now, outBase |-> NoVerdict, outVariant |-> NoVerdict,
                 cmp |-> NoComparison]
    /\ vaultKeys = {}
    /\ catalog = Partitioned({})
    /\ req = [s \in ReqSlots |-> IdleReq]
    /\ call = NoCall
    /\ cred = NoCred
    /\ gw = NoGw
    /\ db = {}
    /\ clock = 2000
    /\ push = [p \in Slots |-> IdlePush]
    /\ hist = [db0 |-> db, submitted |-> {}]
    /\ pull = IdlePull
    /\ sess = NoSession

SigFields == {<<115, 105, 103, 110, 97, 116, 117, 114, 101>> (* "signature" *), <<109, 101, 116, 104, 111, 100>> (* "method" *), <<112, 97, 116, 104>> (* "path" *), <<113, 117, 101, 114, 121>> (* "query" *)}

FieldOf(r, field) ==
    IF field = <<115, 105, 103, 110, 97, 116, 117, 114, 101>> (* "signature" *) THEN r.auth.signature
    ELSE IF field = <<109, 101, 116, 104, 111, 100>> (* "method" *) THEN r.method
    ELSE IF field = <<112, 97, 116, 104>> (* "path" *) THEN r.path
    ELSE r.query

WithField(r, field, text) ==
    IF field = <<115, 105, 103, 110, 97, 116, 117, 114, 101>> (* "signature" *) THEN [r EXCEPT !.auth.signature = text]
    ELSE IF field = <<109, 101, 116, 104, 111, 100>> (* "method" *) THEN [r EXCEPT !.method = text]
    ELSE IF field = <<112, 97, 116, 104>> (* "path" *) THEN [r EXCEPT !.path = text]
    ELSE [r EXCEPT !.query = text]

Verified(variant, field) ==
    [sig EXCEPT !.called = TRUE, !.variant = variant, !.field = field,
                !.outBase = Verify(sig.base, sig.now),
                !.outVariant = Verify(variant, sig.now)]

\* verifySignature on the request as it was signed.
VerifyBase ==
    /\ ~sig.called
    /\ sig' = Verified(sig.base, <<>>)
    /\ UNCHANGED <<vaultKeys, db, clock, push, hist, pull, sess, catalog, req, call, cred, gw>>

\* verifySignature on the request with one byte of the signature, the
\* method, the path or the query string changed.
VerifyVariant(field, i, b) ==
    /\ ~sig.called
    /\ i <= Len(FieldOf(sig.base, field))
    /\ FieldOf(sig.base, field)[i] # b
    /\ sig' = Verified(WithField(sig.base, field,
                           [FieldOf(sig.base, field) EXCEPT ![i] = b]), field)
    /\ UNCHANGED <<vaultKeys, db, clock, push, hist, pull, sess, catalog, req, call, cred, gw>>

\* verifySignature on the request with one byte of a signed header's value changed.
VerifyHeaderVariant(name, i, b) ==
    /\ ~sig.called
    /\ name \in DOMAIN sig.base.headers
    /\ i <= Len(sig.base.headers[name])
    /\ sig.base.headers[name][i] # b
    /\ sig' = Verified([sig.base EXCEPT !.headers[name][i] = b], name)
    /\ UNCHANGED <<vaultKeys, db, clock, push, hist, pull, sess, catalog, req, call, cred, gw>>

\* The texts the comparison is applied to.
CmpTexts == {<<48, 48>> (* "00" *), <<48, 49>> (* "01" *), <<49, 48>> (* "10" *), <<49, 49>> (* "11" *), <<48>> (* "0" *), <<48, 48, 48>> (* "000" *)}

\* The comparison of verifySignature on two texts.
CompareSignatures(a, b) ==
    /\ ~sig.called
    /\ sig' = [sig EXCEPT !.called = TRUE,
                  !.cmp = [a |-> a, b |-> b,
                           equal |-> SignaturesEqual(a, b).equal,
                           compared |-> SignaturesEqual(a, b).compared]]
    /\ UNCHANGED <<vaultKeys, db, clock, push, hist, pull, sess, catalog, req, call, cred, gw>>

SigNext ==
    \/ VerifyBase
    \/ \E field \in SigFields, i \in 1..16, b \in SigBytes : VerifyVariant(field, i, b)
    \/ \E name \in {TxtHost, TxtXAmzDate}, i \in 1..16, b \in SigBytes :
          VerifyHeaderVariant(name, i, b)
    \/ \E a \in CmpTexts, b \in CmpTexts : CompareSignatures(a, b)

SigSpec == SigInit /\ [][SigNext]_vars

\* C22 (as stated): if verifySignature accepts the request, it rejects the
\* request with one byte of the signature, the method, the path, the query
\* string or a signed header's value changed.
C22_OneByteChangeRejected ==
    (sig.called /\ sig.field # <<>> /\ sig.outBase.valid) => ~sig.outVariant.valid

\* The timestamp of a request: headers['x-amz-date'] || headers['date'] || ''.
RequestTimestamp(r) ==
    IF HeaderOr(r.headers, TxtXAmzDate) # <<>> THEN HeaderOr(r.headers, TxtXAmzDate)
    ELSE HeaderOr(r.headers, TxtDate)

\* C23 (as stated): verifySignature accepts only a request whose timestamp
\* is strictly less than 900 seconds from the server's clock.
C23_SkewStrictlyBelow900s ==
    (sig.called /\ sig.outBase.valid) =>
        Abs(sig.now - parseISO8601(RequestTimestamp(sig.base)).time) < 900000

\* ts is written YYYYMMDDTHHMMSSZ and names an instant: every field is in range.
ValidInstant(ts) ==
    /\ Len(ts) = 16
    /\ ts[9] = 84
    /\ ts[16] = 90
    /\ \A i \in (1..8) \cup (10..15) : ts[i] \in Digit
    /\ ParseInt(SubSeq(ts, 5, 6)) \in 1..12
    /\ ParseInt(SubSeq(ts, 7, 8)) \in
           1..DaysInMonth(ParseInt(SubSeq(ts, 1, 4)), ParseInt(SubSeq(ts, 5, 6)) - 1)
    /\ ParseInt(SubSeq(ts, 10, 11)) \in 0..23
    /\ ParseInt(SubSeq(ts, 12, 13)) \in 0..59
    /\ ParseInt(SubSeq(ts, 14, 15)) \in 0..59

\* Every field of the Authorization header is of its character class.
WellFormedAuth(auth) ==
    LET parts == Split(auth.credential, Slash)
    IN  /\ Matches(PartOr(parts, 1), UpperAlpha \cup LowerAlpha \cup Digit)
        /\ Len(PartOr(parts, 2)) = 8 /\ Matches(PartOr(parts, 2), Digit)
        /\ Matches(PartOr(parts, 3), LowerAlpha \cup Digit \cup HyphenClass)
        /\ Matches(PartOr(parts, 4), LowerAlpha \cup Digit)
        /\ Matches(auth.signedHeaders, LowerAlpha \cup Digit \cup HyphenClass \cup {Semicolon})
        /\ Len(auth.signature) = SigLen /\ Matches(auth.signature, HexDigits)

Malformed(r) == ~ValidInstant(RequestTimestamp(r)) \/ ~WellFormedAuth(r.auth)

\* C24 (as stated): a request whose timestamp is missing or names no valid
\* instant, or whose Authorization header has a field outside its character
\* class, is rejected and no signing key is derived for it.
C24_MalformedFailsClosed ==
    sig.called =>
        /\ Malformed(sig.base) => (~sig.outBase.valid /\ ~sig.outBase.derived)
        /\ Malformed(sig.variant) => (~sig.outVariant.valid /\ ~sig.outVariant.derived)

\* C26: the comparison reads every byte of two signatures of equal length,
\* wherever they differ, and reads none of two of unequal length, which it
\* finds unequal; the same holds where verifySignature compares.
C26_ComparisonReadsAllOrNothing ==
    sig.called =>
        /\ (sig.cmp.a # <<>> /\ Len(sig.cmp.a) = Len(sig.cmp.b)) =>
               sig.cmp.compared = Len(sig.cmp.a)
        /\ (sig.cmp.a # <<>> /\ Len(sig.cmp.a) # Len(sig.cmp.b)) =>
               (~sig.cmp.equal /\ sig.cmp.compared = 0)
        /\ sig.outVariant.derived => sig.outVariant.compared = SigLen

\* Two texts of equal length that differ in their first byte were compared.
C26_Witness ==
    /\ sig.called
    /\ sig.cmp.a # <<>>
    /\ Len(sig.cmp.a) = Len(sig.cmp.b)
    /\ sig.cmp.a[1] # sig.cmp.b[1]
    /\ ~sig.cmp.equal

\* ---------------------------------------------------------------------------
\* The credential service (services/storageCredentials.ts) over the table
\* user_storage_credentials.  Every await of a service function is a step of
\* its own: the statement runs at the database between the steps of the
\* other calls.
\* ---------------------------------------------------------------------------

\* Calls of the service that are in flight together.
CredCalls == 1..3

\* Key pairs the generator hands out before the model stops generating.
MaxKeys == 3

TxtHAEX == <<72, 65, 69, 88>>    \* "HAEX"

\* generateAccessKeyId: "HAEX" and random characters of A-Z0-9 (one here, 16
\* in the source); the n-th draw differs from the draws before it.
generateAccessKeyId(n) == TxtHAEX \o <<65 + n>>

\* generateSecretAccessKey: random characters (one here, 40 in the source).
generateSecretAccessKey(n) == <<97 + n>>

\* A row of user_storage_credentials; the secret is stored encrypted with
\* STORAGE_ENCRYPTION_KEY and is held here as pgp_sym_decrypt returns it.
CredRow(userId, n) ==
    [userId |-> userId, accessKeyId |-> generateAccessKeyId(n),
     secretAccessKey |-> generateSecretAccessKey(n)]

\* The result of a call that has not returned, or that returned null.
NoPair == [accessKeyId |-> <<>>, secretAccessKey |-> <<>>]

PairOf(row) == [accessKeyId |-> row.accessKeyId, secretAccessKey |-> row.secretAccessKey]

IdleCall == [op |-> "none", userId |-> "", pc |-> "idle", old |-> NoPair,
             new |-> NoPair, out |-> NoPair]

\* select ... where user_id = userId limit 1
SelectByUserId(rows, userId) == {r \in rows : r.userId = userId}

\* select ... where access_key_id = accessKeyId limit 1
SelectByAccessKeyId(rows, accessKeyId) == {r \in rows : r.accessKeyId = accessKeyId}

\* getCredentialsByAccessKeyId: the row of the key with its secret decrypted,
\* or null (NoPair).
getCredentialsByAccessKeyId(rows, accessKeyId) ==
    LET result == SelectByAccessKeyId(rows, accessKeyId)
    IN  IF result = {} THEN [userId |-> "", secretAccessKey |-> <<>>]
        ELSE LET first == CHOOSE r \in result : TRUE
             IN  [userId |-> first.userId, secretAccessKey |-> first.secretAccessKey]

\* The unique constraints of the table: user_id, access_key_id.
UniqueViolation(rows, row) ==
    \/ \E r \in rows : r.userId = row.userId
    \/ \E r \in rows : r.accessKeyId = row.accessKeyId

CredInit ==
    /\ vaultKeys = {}
    /\ catalog = Partitioned({})
    /\ req = [s \in ReqSlots |-> IdleReq]
    /\ call = NoCall
    /\ sig = NoSig
    /\ gw = NoGw
    /\ db = {}
    /\ clock = 2000
    /\ push = [p \in Slots |-> IdlePush]
    /\ hist = [db0 |-> db, submitted |-> {}]
    /\ pull = IdlePull
    /\ sess = NoSession
    /\ \E keySet \in BOOLEAN, rows \in {{}, {CredRow(u1, 0)}} :
           cred = [encryptionKey |-> keySet, rows |-> rows, generated |-> 1,
                   calls |-> [c \in CredCalls |-> IdleCall]]

CredOthers == <<vaultKeys, db, clock, push, hist, pull, sess, catalog, req, call, sig, gw>>

SetCall(c, rec) == [cred EXCEPT !.calls[c] = rec]

\* The credentials of the user when a call begins.
PairOfUser(rows, userId) ==
    LET existing == SelectByUserId(rows, userId)
    IN  IF existing = {} THEN NoPair ELSE PairOf(CHOOSE r \in existing : TRUE)

\* getOrCreateStorageCredentials up to its select: it throws without
\* STORAGE_ENCRYPTION_KEY.
GetOrCreateBegin(c, userId) ==
    /\ cred.calls[c].pc = "idle"
    /\ cred' = SetCall(c, [IdleCall EXCEPT !.op = "getOrCreate", !.userId = userId,
                              !.old = PairOfUser(cred.rows, userId),
                              !.pc = IF cred.encryptionKey THEN "select" ELSE "failed"])
    /\ UNCHANGED CredOthers

\* The select runs; an existing row is returned, otherwise a new pair is
\* generated and the insert is sent.
GetOrCreateSelect(c) ==
    LET k == cred.calls[c]
        existing == SelectByUserId(cred.rows, k.userId)
    IN  /\ k.pc = "select"
        /\ IF existing # {}
           THEN cred' = SetCall(c, [k EXCEPT !.pc = "done",
                                       !.out = PairOf(CHOOSE r \in existing : TRUE)])
           ELSE /\ cred.generated <= MaxKeys
                /\ cred' = [SetCall(c, [k EXCEPT !.pc = "insert",
                                           !.new = PairOf(CredRow(k.userId, cred.generated))])
                               EXCEPT !.generated = cred.generated + 1]
        /\ UNCHANGED CredOthers

\* The insert runs: it throws on a unique violation, otherwise the row is
\* stored and the generated pair is returned.
GetOrCreateInsert(c) ==
    LET k == cred.calls[c]
        row == [userId |-> k.userId, accessKeyId |-> k.new.accessKeyId,
                secretAccessKey |-> k.new.secretAccessKey]
    IN  /\ k.pc = "insert"
        /\ IF UniqueViolation(cred.rows, row)
           THEN cred' = SetCall(c, [k EXCEPT !.pc = "failed"])
           ELSE cred' = [SetCall(c, [k EXCEPT !.pc = "done", !.out = k.new])
                            EXCEPT !.rows = cred.rows \cup {row}]
        /\ UNCHANGED CredOthers

\* regenerateStorageCredentials up to its delete.
RegenerateBegin(c, userId) ==
    /\ cred.calls[c].pc = "idle"
    /\ cred' = SetCall(c, [IdleCall EXCEPT !.op = "regenerate", !.userId = userId,
                              !.old = PairOfUser(cred.rows, userId),
                              !.pc = IF cred.encryptionKey THEN "delete" ELSE "failed"])
    /\ UNCHANGED CredOthers

\* The delete runs and is committed; getOrCreateStorageCredentials is called.
RegenerateDelete(c) ==
    LET k == cred.calls[c]
    IN  /\ k.pc = "delete"
        /\ cred' = [SetCall(c, [k EXCEPT !.pc = "select"])
                       EXCEPT !.rows = cred.rows \ SelectByUserId(cred.rows, k.userId)]
        /\ UNCHANGED CredOthers

\* A request signed with accessKeyId resolves its credentials.
Lookup(c, accessKeyId) ==
    /\ cred.calls[c].pc = "idle"
    /\ cred.encryptionKey
    /\ LET found == getCredentialsByAccessKeyId(cred.rows, accessKeyId)
       IN  cred' = SetCall(c, [IdleCall EXCEPT !.op = "lookup", !.userId = found.userId,
                                  !.old = [accessKeyId |-> accessKeyId, secretAccessKey |-> <<>>],
                                  !.out = [accessKeyId |-> IF found.userId = "" THEN <<>> ELSE accessKeyId,
                                           secretAccessKey |-> found.secretAccessKey],
                                  !.pc = "done"])
    /\ UNCHANGED CredOthers

CredUsers == {u1, u2}

CredNext ==
    \/ \E c \in CredCalls, userId \in CredUsers : GetOrCreateBegin(c, userId)
    \/ \E c \in CredCalls : GetOrCreateSelect(c)
    \/ \E c \in CredCalls : GetOrCreateInsert(c)
    \/ \E c \in CredCalls, userId \in CredUsers : RegenerateBegin(c, userId)
    \/ \E c \in CredCalls : RegenerateDelete(c)
    \/ \E c \in CredCalls, n \in 0..MaxKeys : Lookup(c, generateAccessKeyId(n))

CredSpec == CredInit /\ [][CredNext]_vars

\* No rotation has begun: every call so far is a getOrCreate or a lookup.
NoRotation == \A c \in CredCalls : cred.calls[c].op # "regenerate"

\* C27 (as stated): with the encryption key configured and no rotation, no
\* call of getOrCreateStorageCredentials for a user fails, the calls that
\* returned for one user returned the same pair, and that user has exactly
\* one record.
C27_SamePairOneRecord ==
    (cred.encryptionKey /\ NoRotation) =>
        \A c \in CredCalls :
            cred.calls[c].op = "getOrCreate" =>
                /\ cred.calls[c].pc # "failed"
                /\ cred.calls[c].pc = "done" =>
                       /\ Cardinality(SelectByUserId(cred.rows, cred.calls[c].userId)) = 1
                       /\ \A d \in CredCalls :
                              (/\ cred.calls[d].op = "getOrCreate"
                               /\ cred.calls[d].pc = "done"
                               /\ cred.calls[d].userId = cred.calls[c].userId)
                              => cred.calls[d].out = cred.calls[c].out

\* C28 (as stated): a rotation replaces the credentials in one step: after
\* it returned the old key resolves no more; while it runs the user's
\* record is the old or the new one and never missing; a rotation that
\* failed left the old credentials in place.
C28_RotationAtomic ==
    \A c \in CredCalls :
        LET k == cred.calls[c]
        IN  (k.op = "regenerate" /\ k.old # NoPair /\ cred.encryptionKey) =>
                /\ k.pc = "done" =>
                       getCredentialsByAccessKeyId(cred.rows, k.old.accessKeyId).userId = ""
                /\ SelectByUserId(cred.rows, k.userId) # {}
                /\ k.pc = "failed" => PairOfUser(cred.rows, k.userId) = k.old

\* ---------------------------------------------------------------------------
\* The storage gateway (routes/storage.ts, MinIO version) and the bucket
\* provisioning of services/minioAdmin.ts.  A request passes
\* storageAuthMiddleware and then the handler of its route; every await is a
\* step of its own, so that the requests in flight interleave at the
\* credential lookup and at every call to the storage backend.
\* ---------------------------------------------------------------------------

TxtStorage == <<47, 115, 116, 111, 114, 97, 103, 101>> (* "/storage" *)
TxtS3 == <<47, 115, 51>> (* "/s3" *)
TxtUserDash == <<117, 115, 101, 114, 45>> (* "user-" *)
TxtBearer == <<66, 101, 97, 114, 101, 114, 32>> (* "Bearer " *)
TxtBasic == <<66, 97, 115, 105, 99>> (* "Basic" *)
TxtPUT == <<80, 85, 84>> (* "PUT" *)
TxtGET == <<71, 69, 84>> (* "GET" *)
TxtDELETE == <<68, 69, 76, 69, 84, 69>> (* "DELETE" *)
TxtHEAD == <<72, 69, 65, 68>> (* "HEAD" *)

\* The text of a user id.
UserIdText(userId) == IF userId = u1 THEN <<117, 49>> (* "u1" *) ELSE <<117, 50>> (* "u2" *)

\* getUserBucket: `user-${userId}`
getUserBucket(userId) == TxtUserDash \o UserIdText(userId)

\* path.replace(/^prefix/, '')
RemovePrefix(path, prefix) ==
    IF StartsWith(path, prefix) THEN SubSeq(path, Len(prefix) + 1, Len(path)) ELSE path

\* extractBucketAndKey without the comparison of the requested bucket with
\* the bucket of the user.
extractAnyBucket(path, userId) ==
    LET noStorage == RemovePrefix(path, TxtStorage)
        cleanPath == RemovePrefix(RemovePrefix(noStorage, TxtS3 \o <<Slash>>), TxtS3)
        parts == Split(cleanPath, Slash)
    IN  IF cleanPath = <<>> THEN [ok |-> TRUE, bucket |-> getUserBucket(userId), key |-> <<>>]
        ELSE [ok |-> TRUE, bucket |-> parts[1], key |-> Join(Tail(parts), <<Slash>>)]

\* extractBucketAndKey of routes/storage.ts; ok = FALSE is null.
extractBucketAndKey(path, userId) ==
    LET noStorage == RemovePrefix(path, TxtStorage)
        cleanPath == RemovePrefix(RemovePrefix(noStorage, TxtS3 \o <<Slash>>), TxtS3)
        parts == Split(cleanPath, Slash)
        requestedBucket == parts[1]
        key == Join(Tail(parts), <<Slash>>)
    IN  IF cleanPath = <<>> THEN [ok |-> TRUE, bucket |-> getUserBucket(userId), key |-> <<>>]
        ELSE IF requestedBucket # getUserBucket(userId)
        THEN [ok |-> FALSE, bucket |-> <<>>, key |-> <<>>]
        ELSE [ok |-> TRUE, bucket |-> requestedBucket, key |-> key]

\* supabase.auth.getUser(token): the user of a session token, "" for none.
extractUserIdFromBearerToken(token) ==
    IF token = <<116, 49>> (* "t1" *) THEN u1
    ELSE IF token = <<116, 50>> (* "t2" *) THEN u2
    ELSE ""

\* Date.now() of the gateway: 2024-01-01T00:00:00Z.
GwNow == 0

GwTimestamp == <<50, 48, 50, 52, 48, 49, 48, 49, 84, 48, 48, 48, 48, 48, 48, 90>> (* "20240101T000000Z" *)

GwScope == <<47, 50, 48, 50, 52, 48, 49, 48, 49, 47, 101, 117, 47, 115, 51, 47, 97, 119, 115, 52, 95, 114, 101, 113, 117, 101, 115, 116>> (* "/20240101/eu/s3/aws4_request" *)

NoAuth == [scheme |-> <<>>, credential |-> <<>>, signedHeaders |-> <<>>,
           signature |-> <<>>, token |-> <<>>]

\* A request without Authorization header.
GwRequest(method, path) ==
    [auth |-> NoAuth,
     headers |-> [n \in {TxtHost, TxtXAmzDate} |-> IF n = TxtHost THEN <<104>> (* "h" *) ELSE GwTimestamp],
     method |-> method, path |-> path, query |-> <<>>]

\* The request as an S3 client signs it with the key pair (accessKeyId, secret).
GwSigned(method, path, accessKeyId, secret) ==
    LET r == GwRequest(method, path)
        auth == [NoAuth EXCEPT !.scheme = TxtAws4HmacSha256,
                               !.credential = accessKeyId \o GwScope,
                               !.signedHeaders = <<104, 111, 115, 116, 59, 120, 45, 97, 109, 122, 45, 100, 97, 116, 101>> (* "host;x-amz-date" *)]
    IN  [r EXCEPT !.auth = [auth EXCEPT !.signature =
            CalculatedSignature(parseAuthorizationHeader(
                                    [auth EXCEPT !.signature = [i \in 1..SigLen |-> 48]],
                                    r.headers),
                                r.headers, method, path, <<>>, secret)]]

GwBearer(method, path, token) ==
    [GwRequest(method, path) EXCEPT !.auth = [NoAuth EXCEPT !.scheme = TxtBearer, !.token = token]]

\* The Authorization headers of the requests: none; signed by u1's S3
\* client; the same with a signature that is not hexadecimal; the same
\* signature with a date of the credential scope that is no date; a
\* Credential without scope; a key pair the server never issued; the session
\* tokens of u1 and of nobody; a scheme the gateway does not support.
GwAuthNames == {"none", "signed", "badSignature", "badDate", "noScope", "unknownKey",
                "bearer", "badBearer", "basic"}

GwWithAuth(name, method, path) ==
    LET signed == GwSigned(method, path, generateAccessKeyId(0), generateSecretAccessKey(0))
    IN  CASE name = "none" -> GwRequest(method, path)
          [] name = "signed" -> signed
          [] name = "badSignature" -> [signed EXCEPT !.auth.signature = [i \in 1..SigLen |-> 122]]
          [] name = "badDate" ->
                 [signed EXCEPT !.auth.credential =
                     generateAccessKeyId(0) \o <<47, 50, 48, 50, 52, 45, 49, 45, 49, 47, 101, 117, 47, 115, 51, 47, 97, 119, 115, 52, 95, 114, 101, 113, 117, 101, 115, 116>> (* "/2024-1-1/eu/s3/aws4_request" *)]
          [] name = "noScope" -> [signed EXCEPT !.auth.credential = generateAccessKeyId(0)]
          [] name = "unknownKey" ->
                 GwSigned(method, path, generateAccessKeyId(9), generateSecretAccessKey(9))
          [] name = "bearer" -> GwBearer(method, path, <<116, 49>> (* "t1" *))
          [] name = "badBearer" -> GwBearer(method, path, <<116, 120>> (* "tx" *))
          [] name = "basic" ->
                 [GwRequest(method, path) EXCEPT !.auth = [NoAuth EXCEPT !.scheme = TxtBasic]]

GwMethods == {TxtPUT, TxtGET, TxtDELETE, TxtHEAD}

\* The paths under /storage/s3/*: an object and the root of the buckets of u1
\* and u2, and no bucket.
GwPaths ==
    {<<47, 115, 116, 111, 114, 97, 103, 101, 47, 115, 51, 47, 117, 115, 101, 114, 45, 117, 49, 47, 107>> (* "/storage/s3/user-u1/k" *),
     <<47, 115, 116, 111, 114, 97, 103, 101, 47, 115, 51, 47, 117, 115, 101, 114, 45, 117, 50, 47, 107>> (* "/storage/s3/user-u2/k" *),
     <<47, 115, 116, 111, 114, 97, 103, 101, 47, 115, 51, 47, 117, 115, 101, 114, 45, 117, 49>> (* "/storage/s3/user-u1" *),
     <<47, 115, 116, 111, 114, 97, 103, 101, 47, 115, 51, 47, 117, 115, 101, 114, 45, 117, 50>> (* "/storage/s3/user-u2" *),
     <<47, 115, 116, 111, 114, 97, 103, 101, 47, 115, 51, 47>> (* "/storage/s3/" *)}

\* The path of the route GET /s3.
GwListPath == <<47, 115, 116, 111, 114, 97, 103, 101, 47, 115, 51>> (* "/storage/s3" *)

GwRequests ==
    {GwWithAuth(a, m, p) : a \in GwAuthNames, m \in GwMethods, p \in GwPaths}
    \cup {GwWithAuth(a, TxtGET, GwListPath) : a \in GwAuthNames}

\* Uploads of u1 and u2 into their own buckets.
GwUploads ==
    {GwBearer(TxtPUT, <<47, 115, 116, 111, 114, 97, 103, 101, 47, 115, 51, 47, 117, 115, 101, 114, 45, 117, 49, 47, 107>> (* "/storage/s3/user-u1/k" *), <<116, 49>> (* "t1" *)),
     GwBearer(TxtPUT, <<47, 115, 116, 111, 114, 97, 103, 101, 47, 115, 51, 47, 117, 115, 101, 114, 45, 117, 50, 47, 107>> (* "/storage/s3/user-u2/k" *), <<116, 50>> (* "t2" *)),
     GwSigned(TxtPUT, <<47, 115, 116, 111, 114, 97, 103, 101, 47, 115, 51, 47, 117, 115, 101, 114, 45, 117, 49, 47, 107>> (* "/storage/s3/user-u1/k" *), generateAccessKeyId(0), generateSecretAccessKey(0))}

\* Requests the gateway serves together: the first is any request, the
\* others are uploads.
GwSlots == 1..2

IdleGw == [pc |-> "idle", req |-> GwRequest(TxtGET, GwListPath), userId |-> "",
           status |-> 0, looked |-> FALSE, calls |-> {}, provisioned |-> FALSE,
           quota |-> 0 - 1]

\* isMinioConfigured
isMinioConfigured == gw.configured

\* The handler of the request's route up to its first await, for the user
\* the middleware has set: the slot with the answer or with the call to the
\* backend that comes next.
EnterHandler(k, userId) ==
    LET extracted == extractBucketAndKey(k.req.path, userId)
        entered == [k EXCEPT !.userId = userId]
        Answer(status) == [entered EXCEPT !.pc = "done", !.status = status]
    IN  IF ~isMinioConfigured THEN Answer(503)
        ELSE IF k.req.method = TxtGET /\ k.req.path = GwListPath
        THEN [entered EXCEPT !.pc = "list"]
        ELSE IF ~extracted.ok THEN Answer(403)
        ELSE IF extracted.key = <<>>
        THEN IF k.req.method = TxtGET THEN [entered EXCEPT !.pc = "list"] ELSE Answer(400)
        ELSE IF k.req.method = TxtPUT THEN [entered EXCEPT !.pc = "ensureHead"]
        ELSE [entered EXCEPT !.pc = "object"]

SetSlot(s, k) == [gw EXCEPT !.slots[s] = k]

GwOthers == <<vaultKeys, db, clock, push, hist, pull, sess, catalog, req, call, sig, cred>>

\* storageAuthMiddleware up to its first await.
Arrive(s, r) ==
    LET k == [gw.slots[s] EXCEPT !.req = r]
        Answer(status) == [k EXCEPT !.pc = "done", !.status = status]
    IN  /\ gw.slots[s].pc = "idle"
        /\ gw' = SetSlot(s,
               IF r.auth.scheme = <<>> THEN Answer(401)
               ELSE IF StartsWith(r.auth.scheme, TxtAws4HmacSha256)
               THEN IF extractAccessKeyId(r.auth) = <<>> THEN Answer(401)
                    ELSE [k EXCEPT !.pc = "lookup"]
               ELSE IF StartsWith(r.auth.scheme, TxtBearer) THEN [k EXCEPT !.pc = "bearer"]
               ELSE Answer(401))
        /\ UNCHANGED GwOthers

\* getCredentialsByAccessKeyId returns: the row is read and its secret
\* decrypted; then verifySignature, and the handler of the route.
AuthLookup(s) ==
    LET k == [gw.slots[s] EXCEPT !.looked = TRUE]
        r == k.req
        credentials == getCredentialsByAccessKeyId(cred.rows, extractAccessKeyId(r.auth))
        isValid == verifySignature(r.auth, r.headers, r.method, r.path, r.query,
                                   credentials.secretAccessKey, GwNow).valid
    IN  /\ gw.slots[s].pc = "lookup"
        /\ gw' = SetSlot(s,
               IF credentials.userId = "" THEN [k EXCEPT !.pc = "done", !.status = 401]
               ELSE IF ~isValid THEN [k EXCEPT !.pc = "done", !.status = 403]
               ELSE EnterHandler(k, credentials.userId))
        /\ UNCHANGED GwOthers

\* extractUserIdFromBearerToken returns; then the handler of the route.
AuthBearer(s) ==
    LET k == gw.slots[s]
        userId == extractUserIdFromBearerToken(k.req.auth.token)
    IN  /\ k.pc = "bearer"
        /\ gw' = SetSlot(s, IF userId = "" THEN [k EXCEPT !.pc = "done", !.status = 401]
                            ELSE EnterHandler(k, userId))
        /\ UNCHANGED GwOthers

BackendCall(k, op, bucket, key) ==
    [k EXCEPT !.calls = k.calls \cup {[op |-> op, bucket |-> bucket, key |-> key]}]

\* ensureUserBucket: the HEAD of the bucket returns.
EnsureBucketHead(s) ==
    LET k == gw.slots[s]
        bucket == getUserBucket(k.userId)
        called == BackendCall(k, "HEAD bucket", bucket, <<>>)
    IN  /\ k.pc = "ensureHead"
        /\ gw' = SetSlot(s, [called EXCEPT !.pc = IF bucket \in gw.buckets
                                                 THEN "quota" ELSE "ensurePut"])
        /\ UNCHANGED GwOthers

\* The answer of the backend to the creation of a bucket.
CreateBucketStatus(buckets, bucket) == IF bucket \in buckets THEN 409 ELSE 200

Ok(status) == status \in 200..299

\* ensureUserBucket throws unless the creation was answered ok.
CreatedOnlyIfOk(status) == Ok(status)

\* ensureUserBucket throws unless the creation was answered ok or 409.
BucketCreated(status) ==
    ~(~Ok(status) /\ status # 409)

\* ensureUserBucket: the PUT of the bucket returns; a throw is caught by the
\* handler, which answers 500.
EnsureBucketPut(s) ==
    LET k == gw.slots[s]
        bucket == getUserBucket(k.userId)
        called == BackendCall(k, "PUT bucket", bucket, <<>>)
        createStatus == CreateBucketStatus(gw.buckets, bucket)
    IN  /\ k.pc = "ensurePut"
        /\ gw' = [SetSlot(s, IF BucketCreated(createStatus)
                             THEN [called EXCEPT !.pc = "quota"]
                             ELSE [called EXCEPT !.pc = "done", !.status = 500])
                     EXCEPT !.buckets = gw.buckets \cup {bucket}]
        /\ UNCHANGED GwOthers

\* The outcomes of the quota request: answered ok, answered with an error,
\* or no answer (fetch throws).
QuotaOutcomes == {200, 500, 0}

\* provisionUserStorage fails on no outcome of setUserBucketQuota: an answer
\* that is not ok is logged, a throw is caught and logged.
QuotaFails(outcome) == FALSE

\* setUserBucketQuota returns or throws; provisionUserStorage returns and the
\* upload is sent.
SetQuota(s, outcome) ==
    LET k == gw.slots[s]
        called == BackendCall(k, "PUT quota", getUserBucket(k.userId), <<>>)
    IN  /\ k.pc = "quota"
        /\ gw' = SetSlot(s, IF QuotaFails(outcome)
                            THEN [called EXCEPT !.pc = "done", !.status = 500]
                            ELSE [called EXCEPT !.pc = "object", !.provisioned = TRUE,
                                                !.quota = outcome])
        /\ UNCHANGED GwOthers

\* The URL parser of fetch resolves the segments "." and ".." of a path.
RECURSIVE RemoveDotSegments(_, _)
RemoveDotSegments(segments, out) ==
    IF segments = <<>> THEN out
    ELSE IF Head(segments) = <<46, 46>> (* ".." *)
    THEN RemoveDotSegments(Tail(segments),
                           IF out = <<>> THEN out ELSE SubSeq(out, 1, Len(out) - 1))
    ELSE IF Head(segments) = <<46>> (* "." *)
    THEN RemoveDotSegments(Tail(segments), out)
    ELSE RemoveDotSegments(Tail(segments), Append(out, Head(segments)))

\* (Variant: the path of the URL is sent as it was written.)
FetchAsWritten(bucket, key) == [bucket |-> bucket, key |-> key]

\* fetch(`${minioEndpoint}/${bucket}/${key}`): the bucket and the key that the
\* path of the parsed URL addresses at the backend.
FetchObject(bucket, key) ==
    LET segments == RemoveDotSegments(<<bucket>> \o Split(key, Slash), <<>>)
    IN  [bucket |-> IF segments = <<>> THEN <<>> ELSE segments[1],
         key |-> IF Len(segments) <= 1 THEN <<>> ELSE Join(Tail(segments), <<Slash>>)]

\* The call for the object returns: uploadToMinio, downloadFromMinio,
\* deleteFromMinio or headFromMinio; the answer of the backend is forwarded.
ObjectCall(s) ==
    LET k == gw.slots[s]
        extracted == extractBucketAndKey(k.req.path, k.userId)
        addressed == FetchObject(extracted.bucket, extracted.key)
        object == <<addressed.bucket, addressed.key>>
        called == BackendCall(k, k.req.method, addressed.bucket, addressed.key)
        Answer(status) == [called EXCEPT !.pc = "done", !.status = status]
    IN  /\ k.pc = "object"
        /\ IF addressed.bucket \notin gw.buckets
           THEN gw' = SetSlot(s, Answer(404))
           ELSE IF k.req.method = TxtPUT
           THEN gw' = [SetSlot(s, Answer(200)) EXCEPT !.objects = gw.objects \cup {object}]
           ELSE IF k.req.method = TxtDELETE
           THEN gw' = [SetSlot(s, Answer(204)) EXCEPT !.objects = gw.objects \ {object}]
           ELSE gw' = SetSlot(s, Answer(IF object \in gw.objects THEN 200 ELSE 404))
        /\ UNCHANGED GwOthers

\* handleListRequest: the list call returns; a bucket the backend does not
\* know is answered with the empty list.
ListCall(s) ==
    LET k == gw.slots[s]
        bucket == getUserBucket(k.userId)
        called == BackendCall(k, "LIST", bucket, <<>>)
        response == IF bucket \in gw.buckets THEN 200 ELSE 404
    IN  /\ k.pc = "list"
        /\ gw' = SetSlot(s, [called EXCEPT !.pc = "done",
                                           !.status = IF response = 404 THEN 200 ELSE response])
        /\ UNCHANGED GwOthers

GwInit ==
    /\ vaultKeys = {}
    /\ catalog = Partitioned({})
    /\ req = [s \in ReqSlots |-> IdleReq]
    /\ call = NoCall
    /\ sig = NoSig
    /\ db = {}
    /\ clock = 2000
    /\ push = [p \in Slots |-> IdlePush]
    /\ hist = [db0 |-> db, submitted |-> {}]
    /\ pull = IdlePull
    /\ sess = NoSession
    /\ cred = [encryptionKey |-> TRUE, rows |-> {CredRow(u1, 0), CredRow(u2, 1)},
               generated |-> 2, calls |-> [c \in CredCalls |-> IdleCall]]
    /\ \E configured \in BOOLEAN, buckets \in {{}, {getUserBucket(u2)}, {getUserBucket(u1)}} :
           gw = [configured |-> configured, buckets |-> buckets, objects |-> {},
                 slots |-> [s \in GwSlots |-> IdleGw]]

GwNext ==
    \/ \E s \in GwSlots : \E r \in (IF s = 1 THEN GwRequests ELSE GwUploads) : Arrive(s, r)
    \/ \E s \in GwSlots : AuthLookup(s)
    \/ \E s \in GwSlots : AuthBearer(s)
    \/ \E s \in GwSlots : EnsureBucketHead(s)
    \/ \E s \in GwSlots : EnsureBucketPut(s)
    \/ \E s \in GwSlots, outcome \in QuotaOutcomes : SetQuota(s, outcome)
    \/ \E s \in GwSlots : ObjectCall(s)
    \/ \E s \in GwSlots : ListCall(s)

GwSpec == GwInit /\ [][GwNext]_vars

\* The bucket segment of a path under /storage/s3/, <<>> if it has none.
BucketSegment(path) ==
    LET prefix == <<47, 115, 116, 111, 114, 97, 103, 101, 47, 115, 51, 47>> (* "/storage/s3/" *)
        rest == SubSeq(path, Len(prefix) + 1, Len(path))
        slashes == {i \in 1..Len(rest) : rest[i] = Slash}
    IN  IF Len(path) <= Len(prefix) THEN <<>>
        ELSE IF slashes = {} THEN rest
        ELSE SubSeq(rest, 1, Min(slashes) - 1)

OwnBucket(userId) == <<117, 115, 101, 114, 45>> (* "user-" *) \o (IF userId = u1 THEN <<117, 49>> (* "u1" *) ELSE <<117, 50>> (* "u2" *))

\* The request of the slot is authenticated and names a bucket that is not
\* the bucket of its user.
ForeignBucket(k) ==
    /\ k.userId # ""
    /\ BucketSegment(k.req.path) # <<>>
    /\ BucketSegment(k.req.path) # OwnBucket(k.userId)

\* C21 (as stated): an authenticated request, of whatever method, that names
\* a bucket other than its user's is answered 403 and no call to the
\* backend is made for it.
C21_ForeignBucketForbidden ==
    \A s \in GwSlots :
        ForeignBucket(gw.slots[s]) =>
            /\ gw.slots[s].pc = "done"
            /\ gw.slots[s].status = 403
            /\ gw.slots[s].calls = {}

\* C21 (amended): with the backend configured, an authenticated request, of
\* whatever method, that names a bucket other than its user's is answered
\* 403 and no call to the backend is made for it.
C21_ForeignBucketForbiddenWhenConfigured ==
    \A s \in GwSlots :
        (gw.configured /\ ForeignBucket(gw.slots[s])) =>
            /\ gw.slots[s].pc = "done"
            /\ gw.slots[s].status = 403
            /\ gw.slots[s].calls = {}

\* An upload of u1 into the bucket of u2 was answered by a configured gateway.
C21_Witness ==
    /\ gw.configured
    /\ gw.slots[1].pc = "done"
    /\ gw.slots[1].userId = u1
    /\ gw.slots[1].req.method = TxtPUT
    /\ BucketSegment(gw.slots[1].req.path) = OwnBucket(u2)
    /\ gw.slots[1].status = 403

\* C25 (as stated): no credential is looked up, and no secret decrypted, for
\* a request whose AWS4-HMAC-SHA256 Authorization header has a field outside
\* its character class.
C25_MalformedNeverLooksUp ==
    \A s \in GwSlots :
        (/\ StartsWith(gw.slots[s].req.auth.scheme, TxtAws4HmacSha256)
         /\ ~WellFormedAuth(gw.slots[s].req.auth))
        => (~gw.slots[s].looked /\ gw.slots[s].pc # "lookup")

\* C29 (as stated): a gateway without configured backend answers every
\* request 503 and makes no call to the backend.
C29_UnconfiguredAnswers503 ==
    ~gw.configured =>
        \A s \in GwSlots :
            /\ gw.slots[s].calls = {}
            /\ gw.slots[s].pc = "done" => gw.slots[s].status = 503

\* C30: an upload whose provisioning has begun is not answered before the
\* provisioning succeeded, and is then answered 200, whatever the other
\* uploads did in between and whatever became of the request for the quota.
C30_ProvisioningSucceeds ==
    \A s \in GwSlots :
        (gw.slots[s].pc = "done" /\ gw.slots[s].calls # {} /\ gw.slots[s].req.method = TxtPUT)
        => (gw.slots[s].provisioned /\ gw.slots[s].status = 200)

\* Two uploads of u1 both found no bucket and both asked for its creation;
\* the quota of the first could not be set; both were answered 200.
C30_Witness ==
    /\ \A s \in GwSlots :
           /\ gw.slots[s].pc = "done"
           /\ gw.slots[s].userId = u1
           /\ \E b \in gw.slots[s].calls : b.op = "PUT bucket"
           /\ gw.slots[s].status = 200
    /\ gw.slots[1].quota = 500

-----------------------------------------------------------------------------
(* Properties of repeated and conflicting pushes.                          *)

\* Every change of the request of slot p addresses a cell whose committed
\* record carries an HLC at least as great as the change's.
NothingNewer(p) ==
    \A i \in 1..Len(push[p].changes) :
        \E r \in CellRecords(db, push[p].vaultId, push[p].changes[i]) :
            ~TextLess(r.hlcTimestamp, push[p].changes[i].hlcTimestamp)

\* C31 (as stated): a push that commits and whose every change carries an
\* HLC lower than or equal to the one stored for its cell leaves
\* sync_changes as it was, updated_at included.
C31_StalePushChangesNothing ==
    [][\A p \in Slots :
          (push[p].pc = "tx" /\ push'[p].pc = "done" /\ push'[p].status = 200
              /\ NothingNewer(p))
          => db' = db]_vars

\* C32 (as stated): the lastHlc of a push answered 200 is the greatest, as
\* text, of the hlcTimestamp values the request carried.
C32_LastHlcIsMaximum ==
    [][\A p \in Slots :
          (push[p].pc = "tx" /\ push'[p].pc = "done" /\ push'[p].status = 200
              /\ Len(push[p].changes) > 0)
          => /\ \E i \in 1..Len(push[p].changes) :
                    push'[p].lastHlc = push[p].changes[i].hlcTimestamp
             /\ \A i \in 1..Len(push[p].changes) :
                    ~TextLess(push'[p].lastHlc, push[p].changes[i].hlcTimestamp)]_vars

-----------------------------------------------------------------------------
(* Specification RenameSpec: a push, a pull and renames of the vault       *)
(* (PATCH /sync/vault-key) on a store that may hold a row already.         *)

RenameNext ==
    \/ PushReceive(1, u1, v1, PushLists)
    \/ PushChunk(1)
    \/ PushStmtFail(1)
    \/ PushCommit(1)
    \/ ReaderRequest
    \/ PullStep1
    \/ PullStep2
    \/ \E name \in {valX, valY} : VaultKeyPatchCheck(1, u1, v1, name)
    \/ VaultKeyPatchUpdate(1)

RenameSpec == ChunkInit /\ [][RenameNext]_vars

\* The cells of a vault that have a record in `rows`.
CellsOf(rows, vaultId) ==
    {<<r.tableName, r.rowPks, r.columnName>> : r \in {x \in rows : x.vaultId = vaultId}}

\* C33: no step of a push, a pull or a rename removes a cell from the cells
\* stored for the vault.
C33_CellsNeverShrink ==
    [][CellsOf(db, v1) \subseteq CellsOf(db', v1)]_vars

\* The vault was renamed, a pull was answered, and a push replaced the record
\* the store held and added a cell.
C33_Witness ==
    /\ hist.db0 # {}
    /\ \A r \in hist.db0 : r \notin db
    /\ Cardinality(CellsOf(db, v1)) > Cardinality(CellsOf(hist.db0, v1))
    /\ push[1].status = 200
    /\ pull.pc = "done"
    /\ req[1].op = "patch"
    /\ req[1].status = 200
    /\ \E k \in vaultKeys : k.encryptedVaultName = valY

-----------------------------------------------------------------------------
(* Specification OverlapSpec: one push and pulls of a reader, while time   *)
(* passes between their steps.                                             *)

\* The wall clocks go on by a millisecond (twice at most).
Tick ==
    /\ clock < 4000
    /\ clock' = clock + 1000
    /\ UNCHANGED <<vaultKeys, db, push, hist, pull, sess, catalog, req, call, sig, cred, gw>>

OverlapInit ==
    /\ vaultKeys = {VaultKey(u1, v1, valX)}
    /\ catalog = Partitioned({v1})
    /\ req = [s \in ReqSlots |-> IdleReq]
    /\ call = NoCall
    /\ sig = NoSig
    /\ cred = NoCred
    /\ gw = NoGw
    /\ db \in ChunkStores
    /\ clock = 2500
    /\ push = [p \in Slots |-> IdlePush]
    /\ hist = [db0 |-> db, submitted |-> {}]
    /\ pull = IdlePull
    /\ sess = NoSession

OverlapNext ==
    \/ PushReceive(1, u1, v1, PushLists)
    \/ PushChunk(1)
    \/ PushStmtFail(1)
    \/ PushCommit(1)
    \/ ReaderRequest
    \/ PullStep1
    \/ PullStep2
    \/ Tick

OverlapSpec == OverlapInit /\ [][OverlapNext]_vars

\* <<max(updated_at), table_name, row_pks>> of the row of record w in `rows`.
RowKeyIn(rows, w) ==
    <<Max({x.updatedAt : x \in {y \in rows : y.vaultId = w.vaultId
                                             /\ y.tableName = w.tableName
                                             /\ y.rowPks = w.rowPks}}),
      w.tableName, w.rowPks>>

\* The row key lies after the cursor of the response in `pull`: after its
\* time if the response named no row, after <<time, table, row>> otherwise.
AfterHandedOutCursor(key) ==
    IF pull.lastTableName = undefined
    THEN key[1] > ParseTimestamptz(pull.serverTimestamp)
    ELSE KeyLess(<<ParseTimestamptz(pull.serverTimestamp), pull.lastTableName,
                   pull.lastRowPks>>, key)

\* C34 (as stated): a push commits no row whose
\* <<max(updated_at), table_name, row_pks>> is at or below the cursor that
\* a pull has handed out.
C34_CommitsAfterEveryCursor ==
    [][(push[1].pc = "tx" /\ push'[1].pc = "done" /\ push'[1].status = 200
           /\ pull.pc = "done")
       => \A w \in db' \ db : AfterHandedOutCursor(RowKeyIn(db', w))]_vars

-----------------------------------------------------------------------------
(* Further properties of the vault routes.                                 *)

\* The record belongs to another (user, vault) pair than the one of the
\* request r.
OfAnotherPair(x, r) == ~(x.userId = r.userId /\ x.vaultId = r.vaultId)

\* C35 (as stated): the statement of DELETE /sync/vault/:vaultId removes no
\* record of another (user, vault) pair, and no partition that holds one.
C35_DeleteSparesOtherVaults ==
    [][\A s \in ReqSlots :
          (req[s].pc = "delete" /\ req'[s].pc = "done") =>
              /\ \A x \in db : OfAnotherPair(x, req[s]) => x \in db'
              /\ \A t \in catalog.partitions :
                     (\E x \in RowsOfTable(db, catalog, t.name) : OfAnotherPair(x, req[s]))
                         => t \in catalog'.partitions
      ]_vars

-----------------------------------------------------------------------------
(* Further properties of the push.                                         *)

\* The request of slot p carries two changes for one cell.
RepeatsCell(p) ==
    \E i, j \in 1..Len(push[p].changes) :
        i # j /\ SameCell(push[p].changes[i], push[p].changes[j])

\* The statement that the transaction of slot p runs next.
NextStatement(p) ==
    InsertOnConflict([view |-> Visible(p), touched |-> {}, returned |-> <<>>,
                      error |-> "none"],
                     Chunk(push[p].changes, push[p].next), push[p].userId,
                     push[p].vaultId, push[p].now, vaultKeys)

\* C36 (as stated): a push that carries two or more changes for one cell is
\* accepted: none of its statements is refused, and when it commits every
\* record of a cell it addressed carries the greatest HLC among the changes
\* for that cell and the record stored before.
C36_RepeatedCellAccepted ==
    [][\A p \in Slots :
          (push[p].pc = "tx" /\ RepeatsCell(p)) =>
              /\ push[p].next <= Len(push[p].changes)
                     => NextStatement(p).error = "none"
              /\ (push'[p].pc = "done" /\ push'[p].status = 200) =>
                     \A i \in 1..Len(push[p].changes) :
                         LET c == push[p].changes[i]
                         IN  \A r \in CellRecords(db', push[p].vaultId, c) :
                                 /\ PushesAtMost(p, c, r.hlcTimestamp)
                                 /\ \A x \in CellRecords(db, push[p].vaultId, c) :
                                        ~TextLess(r.hlcTimestamp, x.hlcTimestamp)
      ]_vars

-----------------------------------------------------------------------------
(* Specification TieSpec: two pushes that carry, for the rows r1 and r2,   *)
(* two different values under one HLC.  A push that carries X for r1 and Y *)
(* for r2 while the other carries Y for r1 and X for r2 applies the two    *)
(* values to the two cells in opposite orders.                             *)

TiePool ==
    { Change(t1, rp, c1, hlcHi, dv[1], dv[2], dv[3]) :
          rp \in {r1, r2}, dv \in {<<d1, valX, nonce1>>, <<d2, valY, nonce2>>} }

TieLists == SeqsUpTo(TiePool, 2)

TieNext ==
    \E p \in Slots :
        \/ PushReceive(p, u1, v1, TieLists)
        \/ PushChunk(p)
        \/ PushStmtFail(p)
        \/ PushCommit(p)

TieSpec == PushInit /\ [][TieNext]_vars

\* What a cell holds, for a stored record and for a submitted change.
RecordContent(r) == <<r.hlcTimestamp, r.deviceId, r.encryptedValue, r.nonce>>

ChangeContent(c) == <<c.hlcTimestamp, OrNull(c.deviceId), c.encryptedValue, c.nonce>>

\* The contents the committed pushes submitted for the cell of record r.
SubmittedContents(r) ==
    {ChangeContent(x.change) : x \in {y \in hist.submitted :
                                         y.vaultId = r.vaultId /\ SameCell(y.change, r)}}

\* C37 (as stated): what is stored for a cell after pushes that submitted
\* different values under one HLC does not depend on the order in which the
\* pushes were applied: two cells for which the committed pushes submitted
\* the same contents, all under one HLC, hold the same content.
C37_TieOrderIndependent ==
    \A r \in db : \A w \in db :
        (/\ SubmittedContents(r) = SubmittedContents(w)
         /\ \A a \in SubmittedContents(r) : a[1] = r.hlcTimestamp)
        => RecordContent(r) = RecordContent(w)

-----------------------------------------------------------------------------
(* Further properties of the pull.                                         *)

\* The rows having a record that device d did not write (a record without
\* device_id was not written by d), each with the greatest updated_at of
\* those records: <<max, table, row>>.
RowsNotWrittenBy(d) ==
    LET others == {r \in db : /\ r.userId = pull.userId
                              /\ r.vaultId = pull.vaultId
                              /\ r.deviceId # d}
    IN  {<<Max({x.updatedAt : x \in {y \in others : y.tableName = r.tableName
                                                      /\ y.rowPks = r.rowPks}}),
           r.tableName, r.rowPks>> : r \in others}

\* C38 (as stated): a pull without cursor and with excludeDeviceId = d
\* returns the rows that have a record not written by d, records without
\* device_id included, ordered by the greatest updated_at of those records:
\* the page holds only such rows, and a row it leaves out sorts after a full
\* page.
C38_ExcludeKeepsUnattributedRows ==
    (/\ pull.pc \in {"step2", "done"}
     /\ pull.excludeDeviceId # undefined
     /\ ~Truthy(pull.afterUpdatedAt)) =>
        LET expected == RowsNotWrittenBy(pull.excludeDeviceId)
        IN  /\ PageKeys \subseteq expected
            /\ \A k \in expected \ PageKeys :
                   /\ Len(pull.page) = pull.limit
                   /\ \A i \in 1..Len(pull.page) : KeyLess(PageKey(i), k)

-----------------------------------------------------------------------------
(* Specification StorageClientSpec: the gateway with the requests of a    *)
(* client of u1 that takes its bucket from storage_config, or that writes  *)
(* ".." segments into the key.                                             *)

TxtStorageDash == <<115, 116, 111, 114, 97, 103, 101, 45>> (* "storage-" *)

\* createStorageConfig of routes/auth.ts: the bucket of the storage_config
\* (endpoint, region and the credentials are not modelled).
createStorageConfig(userId) == [bucket |-> TxtStorageDash \o UserIdText(userId)]

StorageClientPaths ==
    {<<47, 115, 116, 111, 114, 97, 103, 101, 47, 115, 51, 47, 117, 115, 101, 114, 45, 117, 49>> (* "/storage/s3/user-u1" *),
     <<47, 115, 116, 111, 114, 97, 103, 101, 47, 115, 51, 47, 117, 115, 101, 114, 45, 117, 49, 47, 107>> (* "/storage/s3/user-u1/k" *),
     <<47, 115, 116, 111, 114, 97, 103, 101, 47, 115, 51, 47, 117, 115, 101, 114, 45, 117, 49, 47, 46, 46, 47, 117, 115, 101, 114, 45, 117, 50, 47, 107>> (* "/storage/s3/user-u1/../user-u2/k" *),
     <<47, 115, 116, 111, 114, 97, 103, 101, 47, 115, 51, 47, 117, 115, 101, 114, 45, 117, 49, 47, 97, 47, 46, 46, 47, 107>> (* "/storage/s3/user-u1/a/../k" *),
     <<47, 115, 116, 111, 114, 97, 103, 101, 47, 115, 51, 47, 115, 116, 111, 114, 97, 103, 101, 45, 117, 49, 47, 107>> (* "/storage/s3/storage-u1/k" *),
     <<47, 115, 116, 111, 114, 97, 103, 101, 47, 115, 51, 47, 115, 116, 111, 114, 97, 103, 101, 45, 117, 49>> (* "/storage/s3/storage-u1" *)}

StorageClientRequests ==
    {GwWithAuth(a, m, p) : a \in {"signed", "bearer"}, m \in GwMethods, p \in StorageClientPaths}

StorageClientNext ==
    \/ \E s \in GwSlots : \E r \in (IF s = 1 THEN StorageClientRequests ELSE GwUploads) : Arrive(s, r)
    \/ \E s \in GwSlots : AuthLookup(s)
    \/ \E s \in GwSlots : AuthBearer(s)
    \/ \E s \in GwSlots : EnsureBucketHead(s)
    \/ \E s \in GwSlots : EnsureBucketPut(s)
    \/ \E s \in GwSlots, outcome \in QuotaOutcomes : SetQuota(s, outcome)
    \/ \E s \in GwSlots : ObjectCall(s)
    \/ \E s \in GwSlots : ListCall(s)

StorageClientSpec == GwInit /\ [][StorageClientNext]_vars

\* C39 (as stated): every call the gateway makes to the backend for a
\* request that passed the bucket check addresses the bucket of the user of
\* the request, also when the key of the request holds ".." segments.
C39_BackendCallsStayInOwnBucket ==
    \A s \in GwSlots :
        \A called \in gw.slots[s].calls :
            called.bucket = getUserBucket(gw.slots[s].userId)

\* C40 (as stated): the bucket of the storage_config of a user is the bucket
\* the gateway derives for the user, and a configured gateway does not answer
\* 403 to an authenticated request addressed to the bucket of the
\* storage_config of its user.
C40_ConfigBucketPassesCheck ==
    \A s \in GwSlots :
        LET k == gw.slots[s]
        IN  (/\ gw.configured
             /\ k.userId # ""
             /\ BucketSegment(k.req.path) = createStorageConfig(k.userId).bucket)
            => /\ createStorageConfig(k.userId).bucket = getUserBucket(k.userId)
               /\ k.status # 403
====
